---- MODULE Spec2Model ----
(***************************************************************************)
(* Canvas quiz CSV -> HTML -> PDF pipeline.                                *)
(*                                                                         *)
(* A document is a BeautifulSoup tree: a heap of nodes with identity, each *)
(* with a tag name, attributes, its text and the ordered list of its child *)
(* elements.  Serialised HTML (what str(soup) returns and what             *)
(* str.replace works on) is a sequence of tokens.                          *)
(***************************************************************************)
EXTENDS Integers, Sequences, FiniteSets, TLC

VARIABLES
    pc,             \* position of the control thread
    group,          \* the question group's configuration (QUIZ_CONFIG['question_groups'][i])
    soup,           \* the document tree held by add_question_structure_and_placeholders
    sections,       \* its list of 'Question ... points' h1 headings, in document order
    version_num,    \* its loop variable
    student,        \* the student record handed to generate_student_html
    num_parts_arg,  \* the num_parts argument of generate_student_html (0 is None)
    html,           \* the html string of generate_student_html / insert_student_answers
    part_i,         \* number of completed iterations of the loop of insert_student_answers
    columns,        \* CanvasCSVParser.df.columns: the header cells of the export
    num_rows,       \* len(df_subset): the rows get_student_data iterates over
    variant_columns,\* CanvasCSVParser.variant_columns, a dict in insertion order
    shared_columns, \* CanvasCSVParser.shared_columns
    row_idx,        \* rows get_student_data has finished
    row,            \* the row of the current iteration
    group_idx,      \* groups of the current row that are done
    student_rec,    \* the dict `student` of the current iteration
    students_len,   \* len(students) inside get_student_data
    quiz_groups,    \* process_quiz: config['question_groups']
    limit,          \* process_quiz: the limit argument (0: None)
    templates,      \* process_quiz: the template of each group, by position of the group
    students,       \* process_quiz: the records get_student_data returned
    student_idx,    \* process_quiz: the student of the current iteration (1-based)
    group_pos,      \* process_quiz: groups done for the current student
    written,        \* process_quiz: the html files written
    pdf_count,      \* process_quiz: pdf_count
    fragment,       \* sanitizer: the answer fragment handed in
    cleaned,        \* sanitizer: sanitize_student_answer(fragment)
    cleaned_again,  \* sanitizer: sanitize_student_answer(cleaned)
    converted,      \* sanitizer: convert_latex_in_html(fragment)
    html_again,     \* what a second call of generate_student_html returned
    force_regenerate, \* load_or_generate_templates: the force flag
    template_files, \* templates/quizN/<group>_template.html, by position of the group
    saved,          \* positions of the groups whose template file this run wrote
    failures,       \* 'PDF generation failed' messages printed
    summary,        \* the summary panel process_quiz printed
    tasks,          \* generate_pdf_batch: the state of each generate_pdf coroutine
    batch_result,   \* generate_pdf_batch: the value returned
    cli_args,       \* run_quiz: args, the parsed command line
    csv_exists,     \* run_quiz: Path(args.csv).exists()
    config_state,   \* run_quiz: what importing the config module gives
    exit_status,    \* run_quiz: the exit status of the process
    workflow_started, \* run_quiz: the body of process_quiz has begun
    latex_content,  \* replace_tikz_with_images: the LaTeX of the group's line range
    image_map,      \* replace_tikz_with_images: the group's image_map, figure number -> file
    preprocessed    \* replace_tikz_with_images: the value returned

assemblerVars == <<group, soup, sections, version_num>>
binderVars == <<student, num_parts_arg, html, part_i>>
parserVars == <<columns, num_rows, variant_columns, shared_columns, row_idx, row, group_idx,
                student_rec, students_len>>

quizVars == <<quiz_groups, limit, templates, students, student_idx, group_pos, written,
              pdf_count>>

sanitizerVars == <<fragment, cleaned, cleaned_again, converted>>
storeVars == <<force_regenerate, template_files, saved, failures, summary>>
batchVars == <<tasks, batch_result>>
cliVars == <<cli_args, csv_exists, config_state, exit_status, workflow_started>>
preprocessVars == <<latex_content, image_map, preprocessed>>

vars == <<pc, assemblerVars, binderVars, parserVars, quizVars, sanitizerVars, html_again,
          storeVars, batchVars, cliVars, preprocessVars>>

(***************************************************************************)
(* Bounds of the model.                                                    *)
(***************************************************************************)
MaxVersions == 2        \* 'Question' headings in one rubric segment
MaxNumParts == 2        \* configured num_parts of a group
MaxBlocks == 2          \* question blocks of an export
MaxRows == 2            \* rows of an export

(***************************************************************************)
(* Small helpers on sequences.                                             *)
(***************************************************************************)
Range(s) == {s[i] : i \in 1..Len(s)}

InSeq(x, s) == \E i \in 1..Len(s) : s[i] = x

IndexOf(x, s) == CHOOSE i \in 1..Len(s) : s[i] = x /\ \A j \in 1..(i - 1) : s[j] # x

Without(s, x) == SelectSeq(s, LAMBDA y : y # x)

RECURSIVE Concat(_)
Concat(ss) == IF ss = <<>> THEN <<>> ELSE Head(ss) \o Concat(Tail(ss))

Min(a, b) == IF a < b THEN a ELSE b

(***************************************************************************)
(* Node identities.  Python objects have identity; here a node is named by *)
(* what created it.                                                        *)
(***************************************************************************)
Node(k, v, i) == [k |-> k, v |-> v, i |-> i]

None == Node("none", 0, 0)
HtmlRoot == Node("html", 0, 0)
HeadTag == Node("head", 0, 0)
BodyTag == Node("body", 0, 0)
StyleTag == Node("style", 0, 0)
SrcNode(i) == Node("src", 0, i)                       \* i-th element pandoc put in <body>
Wrapper(v) == Node("wrapper", v, 0)                   \* wrapper of iteration version_num = v
AnswerSection(v, j) == Node("answer_section", v, j)   \* answer_section of iteration v, part_idx j
AnswerHeading(v, j) == Node("answer_heading", v, j)
AnswerPlaceholder(v, j) == Node("answer_placeholder", v, j)

part_letters == <<"a", "b", "c", "d", "e", "f">>

Upper == [a |-> "A", b |-> "B", c |-> "C", d |-> "D", e |-> "E", f |-> "F"]

\* f"{{{{PART_{part_letter.upper()}}}}}"
Placeholder(letter) ==
    [a |-> "{{PART_A}}", b |-> "{{PART_B}}", c |-> "{{PART_C}}",
     d |-> "{{PART_D}}", e |-> "{{PART_E}}", f |-> "{{PART_F}}"][letter]

PlaceholderLabels == {Placeholder(part_letters[i]) : i \in 1..Len(part_letters)}

(***************************************************************************)
(* Tags.  name: tag name; class: the class list; version / group_id /      *)
(* part: the data-version, data-group and data-part attributes ("" when    *)
(* absent); text: the strings directly inside the tag, as tokens.          *)
(***************************************************************************)
Tag(name, class, version, gid, part, text) ==
    [name |-> name, class |-> class, version |-> version, group_id |-> gid,
     part |-> part, text |-> text]

PlainTag(name, text) == Tag(name, <<>>, "", "", "", text)

\* \section*{Question (N points)} as pandoc renders it: <h1>Question (N points)</h1>
QuestionHeading(points) == PlainTag("h1", <<"Question", " (", ToString(points), " points)">>)

\* \subsection*{Part (N points)}: <h2>Part (N points)</h2>
PartHeading == PlainTag("h2", <<"Part", " (", "5", " points)">>)

\* \begin{quote}\textbf{Solution:} ... \end{quote}: <blockquote>
SolutionBox == PlainTag("blockquote", <<"Solution:", "ref">>)

Paragraph == PlainTag("p", <<"text">>)

(***************************************************************************)
(* Tree navigation (bs4).                                                  *)
(***************************************************************************)
Nodes(sp) == DOMAIN sp.tag

ParentOf(sp, n) ==
    IF \E p \in Nodes(sp) : InSeq(n, sp.kids[p])
    THEN CHOOSE p \in Nodes(sp) : InSeq(n, sp.kids[p])
    ELSE None

\* the elements below the nodes ns, in document order (ns included)
RECURSIVE DocOrder(_, _)
DocOrder(sp, ns) ==
    IF ns = <<>> THEN <<>>
    ELSE <<Head(ns)>> \o DocOrder(sp, sp.kids[Head(ns)]) \o DocOrder(sp, Tail(ns))

Descendants(sp, n) == DocOrder(sp, sp.kids[n])

AllElements(sp) == DocOrder(sp, <<HtmlRoot>>)

\* tag.extract(): the node leaves its parent, and keeps its own subtree
Extract(sp, n) ==
    [sp EXCEPT !.kids = [p \in Nodes(sp) |-> Without(sp.kids[p], n)]]

\* parent.insert(position, n), n detached
InsertAt(sp, parent, position, n) ==
    LET ks == sp.kids[parent]
        at == Min(position, Len(ks))
    IN  [sp EXCEPT !.kids[parent] =
            SubSeq(ks, 1, at) \o <<n>> \o SubSeq(ks, at + 1, Len(ks))]

\* parent.append(n): bs4 extracts n from where it is first
AppendTo(sp, parent, n) ==
    LET e == Extract(sp, n)
    IN  [e EXCEPT !.kids[parent] = Append(e.kids[parent], n)]

\* soup.new_tag(...), attached nowhere yet
NewTag(sp, n, t) ==
    [tag |-> [m \in Nodes(sp) \cup {n} |-> IF m = n THEN t ELSE sp.tag[m]],
     kids |-> [m \in Nodes(sp) \cup {n} |-> IF m = n THEN <<>> ELSE sp.kids[m]]]

\* re.search(r'Question.*points', text) / re.search(r'Part.*points', text)
MatchesThenPoints(text, word) ==
    \E i, j \in 1..Len(text) : i < j /\ text[i] = word /\ text[j] = " points)"

\* tag.find(string=re.compile(r'Question'))
HasQuestionString(sp, n) == InSeq("Question", sp.tag[n].text)

(***************************************************************************)
(* rubric_converter.add_question_structure_and_placeholders                *)
(***************************************************************************)
\* sections = [h1 for h1 in soup.find_all('h1') if re.search(r'Question.*points', ...)]
FindSections(sp) ==
    SelectSeq(AllElements(sp),
              LAMBDA n : sp.tag[n].name = "h1" /\ MatchesThenPoints(sp.tag[n].text, "Question"))

\* the while loop: index in sibs of the last element wrapped, starting at index j
RECURSIVE LastToWrap(_, _, _)
LastToWrap(sp, sibs, j) ==
    IF j + 1 > Len(sibs) THEN j
    ELSE IF sp.tag[sibs[j + 1]].name = "h1" /\ HasQuestionString(sp, sibs[j + 1]) THEN j
    ELSE LastToWrap(sp, sibs, j + 1)

\* lines 236-272: build the wrapper, move the elements into it, put it where the
\* section was
WrapWithVersion(sp, grp, v, section, data_version) ==
    LET parent == ParentOf(sp, section)
        sibs == sp.kids[parent]
        first == IndexOf(section, sibs)
        last == LastToWrap(sp, sibs, first)
        elements_to_wrap == SubSeq(sibs, first, last)
        insert_position == first - 1
        w == NewTag(sp, Wrapper(v),
                    Tag("div", <<"question-version">>, data_version, grp.id, "", <<>>))
        detached == [w EXCEPT !.kids[parent] =
                        SelectSeq(sibs, LAMBDA e : ~InSeq(e, elements_to_wrap))]
        filled == [detached EXCEPT !.kids[Wrapper(v)] = elements_to_wrap]
    IN  InsertAt(filled, parent, insert_position, Wrapper(v))

\* a faulty wrapper: data-version read from the number in the heading
WrapElementsNumberedByHeading(sp, grp, v, section) ==
    WrapWithVersion(sp, grp, v, section, sp.tag[section].text[3])

\* 'data-version': str(version_num)
WrapElements(sp, grp, v, section) == WrapWithVersion(sp, grp, v, section, ToString(v))

\* wrapper.find_all('h2', string=re.compile(r'Part.*points'))
FindParts(sp, w) ==
    SelectSeq(Descendants(sp, w),
              LAMBDA n : sp.tag[n].name = "h2" /\ MatchesThenPoints(sp.tag[n].text, "Part"))

\* part_header.find_next('blockquote'): the first blockquote after the header in
\* document order, anywhere in the document
FindNextBlockquote(sp, header) ==
    LET order == AllElements(sp)
        at == IndexOf(header, order)
        after == SelectSeq(SubSeq(order, at + 1, Len(order)),
                           LAMBDA n : sp.tag[n].name = "blockquote")
    IN  IF after = <<>> THEN None ELSE Head(after)

\* solution_box.insert_after(answer_section)
InsertAfter(sp, anchor, n) ==
    LET parent == ParentOf(sp, anchor)
    IN  InsertAt(sp, parent, IndexOf(anchor, sp.kids[parent]), n)

\* lines 282-318: one part header that gets a letter
PlacePart(sp, grp, v, part_idx, part_header) ==
    LET part_letter == part_letters[part_idx + 1]
        original_text == sp.tag[part_header].text
        new_text == <<"Part", " ", Upper[part_letter]>> \o Tail(original_text)
        new_class == IF grp.page_break = "each-part"
                     THEN Append(sp.tag[part_header].class, "page-break")
                     ELSE sp.tag[part_header].class
        relabelled == [sp EXCEPT !.tag[part_header].text = new_text,
                                 !.tag[part_header].class = new_class]
        solution_box == FindNextBlockquote(relabelled, part_header)
        s1 == NewTag(relabelled, AnswerSection(v, part_idx),
                     Tag("div", <<"student-answer-section">>, "", "", part_letter, <<>>))
        s2 == NewTag(s1, AnswerHeading(v, part_idx),
                     PlainTag("h3", <<"Student Answer (Part ", Upper[part_letter], "):">>))
        s3 == NewTag(s2, AnswerPlaceholder(v, part_idx),
                     Tag("div", <<"answer-placeholder">>, "", "", "", <<Placeholder(part_letter)>>))
        built == [s3 EXCEPT !.kids[AnswerSection(v, part_idx)] =
                     <<AnswerHeading(v, part_idx), AnswerPlaceholder(v, part_idx)>>]
    IN  IF solution_box # None
        THEN InsertAfter(built, solution_box, AnswerSection(v, part_idx))
        ELSE relabelled

\* lines 278-318: for part_idx, part_header in enumerate(parts)
RECURSIVE PlaceParts(_, _, _, _, _)
PlaceParts(sp, grp, v, parts, part_idx) ==
    IF part_idx >= Len(parts) THEN sp
    ELSE LET num_parts == grp.num_parts
             next == IF part_idx < num_parts
                     THEN PlacePart(sp, grp, v, part_idx, parts[part_idx + 1])
                     ELSE sp
         IN  PlaceParts(next, grp, v, parts, part_idx + 1)

\* one iteration of "for version_num in range(len(sections), 0, -1)"
WrapOneSection(sp, grp, secs, v) ==
    LET wrapped == WrapElements(sp, grp, v, secs[v])
    IN  PlaceParts(wrapped, grp, v, FindParts(wrapped, Wrapper(v)), 0)

\* lines 323-418: the style sheet goes into <head> when there is one
AttachStyle(sp) ==
    IF HeadTag \in Nodes(sp)
    THEN AppendTo(NewTag(sp, StyleTag, PlainTag("style", <<"css">>)), HeadTag, StyleTag)
    ELSE sp

(***************************************************************************)
(* The rubric segment of a group as pandoc returns it (--standalone): an   *)
(* <html> with <head> and <body>, the body a flat list of elements.  Each  *)
(* \question[N] is an h1 followed by the question text, each \part[N] an   *)
(* h2, each solutionbox a blockquote.  A part may come without a solution  *)
(* box (or with one preprocess_exam_latex does not recognise).             *)
(***************************************************************************)
PartLayouts ==
    {<<"h2", "blockquote">>,                        \* one part, with its solution
     <<"h2">>,                                      \* one part, no solution block
     <<"h2", "blockquote", "h2", "blockquote">>,    \* two parts, each with its solution
     <<"h2", "h2", "blockquote">>,                  \* the first part has no solution block
     <<"h2", "blockquote", "h2">>}                  \* the second part has no solution block

RECURSIVE SeqsOf(_, _)
SeqsOf(S, n) ==
    IF n = 0 THEN {<<>>}
    ELSE {<<x>> \o s : x \in S, s \in SeqsOf(S, n - 1)}

VariantShapes == {<<"h1", "p">> \o parts : parts \in PartLayouts}

RubricBodies ==
    {pre \o Concat(vs) :
        pre \in {<<>>, <<"p">>},
        vs \in UNION {SeqsOf(VariantShapes, k) : k \in 1..MaxVersions}}

\* the number embedded in the i-th Question heading among n: its point value
QuestionPoints(names, i) ==
    Cardinality({j \in i..Len(names) : names[j] = "h1"})

SourceTag(names, i) ==
    CASE names[i] = "h1" -> QuestionHeading(QuestionPoints(names, i))
      [] names[i] = "h2" -> PartHeading
      [] names[i] = "blockquote" -> SolutionBox
      [] OTHER -> Paragraph

PandocDocument(names) ==
    LET src == {SrcNode(i) : i \in 1..Len(names)}
        all == {HtmlRoot, HeadTag, BodyTag} \cup src
    IN  [tag |-> [n \in all |->
                    IF n \in src THEN SourceTag(names, n.i)
                    ELSE PlainTag(n.k, <<>>)],
         kids |-> [n \in all |->
                    CASE n = HtmlRoot -> <<HeadTag, BodyTag>>
                      [] n = BodyTag -> [i \in 1..Len(names) |-> SrcNode(i)]
                      [] OTHER -> <<>>]]

\* number of \question items in the group's line range
CountQuestions(names) == Cardinality({i \in 1..Len(names) : names[i] = "h1"})

\* a group of QUIZ_CONFIG whose num_versions describes the rubric segment `names`
GroupsFor(names) ==
    {[id |-> "q1", num_parts |-> n, page_break |-> pb, num_versions |-> CountQuestions(names)] :
        n \in 1..MaxNumParts, pb \in {"same-page", "each-part"}}

RECURSIVE WrapFrom(_, _, _, _)
WrapFrom(sp, grp, secs, v) ==
    IF v = 0 THEN sp ELSE WrapFrom(WrapOneSection(sp, grp, secs, v), grp, secs, v - 1)

add_question_structure_and_placeholders(sp, grp) ==
    AttachStyle(WrapFrom(sp, grp, FindSections(sp), Len(FindSections(sp))))

(***************************************************************************)
(* latex_converter: a fragment of answer markup is a sequence of text      *)
(* units: the marker "LaTeX:", a blank " ", "\left", "\right", markup tags *)
(* (they begin with "<"), equation images, words and single characters.    *)
(***************************************************************************)
IsSpace(t) == t \in {" ", "\n", "\t"}

StartsWithLt(t) == t \in {"<p>", "</p>", "<br/>", "<span class=\"math inline\">", "</span>",
                          "<img class=\"equation_image\" data-equation-content=\"x\"/>",
                          "<img class=\"equation_image\" data-equation-content=\"\"/>",
                          "<img src=\"g.png\"/>"}

\* (with|to|from|of|as|which|where|and|the|is|in|that|for|if|on), re.IGNORECASE
IsStopWord(t) ==
    t \in {"with", "to", "from", "of", "as", "which", "where", "and", "the", "is", "in",
           "that", "for", "if", "on", "And", "AND"}

\* re.match(r'\s+(with|...|on)\s', text[i:]), i counted from 0
RECURSIVE StopWordAhead(_, _)
StopWordAhead(text, i) ==
    /\ i + 1 <= Len(text)
    /\ IsSpace(text[i + 1])
    /\ \/ /\ i + 3 <= Len(text)
          /\ IsStopWord(text[i + 2])
          /\ IsSpace(text[i + 3])
       \/ StopWordAhead(text, i + 1)

\* lines 41-73: the while loop; returns expr and i
RECURSIVE ScanExpression(_, _, _, _)
ScanExpression(text, i, depth, expr) ==
    IF i >= Len(text) THEN [expr |-> expr, i |-> i]
    ELSE IF text[i + 1] = "\\left"
    THEN ScanExpression(text, i + 1, depth + 1, Append(expr, text[i + 1]))
    ELSE IF text[i + 1] = "\\right"
    THEN IF depth - 1 > 0
         THEN ScanExpression(text, i + 1, depth - 1, Append(expr, text[i + 1]))
         ELSE IF i + 1 < Len(text) /\ IsSpace(text[i + 2])
         THEN [expr |-> Append(expr, text[i + 1]), i |-> i + 1]
         ELSE ScanExpression(text, i + 1, depth - 1, Append(expr, text[i + 1]))
    ELSE IF depth = 0 /\ StartsWithLt(text[i + 1])
    THEN [expr |-> expr, i |-> i]
    ELSE IF depth = 0 /\ StopWordAhead(text, i)
    THEN [expr |-> expr, i |-> i]
    ELSE ScanExpression(text, i + 1, depth, Append(expr, text[i + 1]))

RECURSIVE LStrip(_)
LStrip(s) == IF s # <<>> /\ IsSpace(Head(s)) THEN LStrip(Tail(s)) ELSE s

RECURSIVE RStrip(_)
RStrip(s) ==
    IF s # <<>> /\ IsSpace(s[Len(s)]) THEN RStrip(SubSeq(s, 1, Len(s) - 1)) ELSE s

\* a faulty trim: trailing punctuation is kept
KeepPunctuation(s) == s

\* .rstrip(',.;:'): the marker "LaTeX:" itself ends with a colon
RECURSIVE RStripPunctuation(_)
RStripPunctuation(s) ==
    IF s = <<>> THEN s
    ELSE IF s[Len(s)] \in {",", ".", ";", ":"}
    THEN RStripPunctuation(SubSeq(s, 1, Len(s) - 1))
    ELSE IF s[Len(s)] = "LaTeX:" THEN SubSeq(s, 1, Len(s) - 1) \o <<"LaTeX">>
    ELSE s

\* end of the match of r'LaTeX:\s*' that starts at index m (from 0)
RECURSIVE MatchEnd(_, _)
MatchEnd(h, e) == IF e < Len(h) /\ IsSpace(h[e + 1]) THEN MatchEnd(h, e + 1) ELSE e

\* html[a:b] of Python, a and b counted from 0
Slice(h, a, b) == SubSeq(h, a + 1, b)

\* lines 28-78: the for loop over re.finditer(r'LaTeX:\s*', html), from index m
RECURSIVE ConvertMatches(_, _, _, _)
ConvertMatches(h, m, last_end, result) ==
    IF m >= Len(h) THEN result \o Slice(h, last_end, Len(h))
    ELSE IF h[m + 1] # "LaTeX:" THEN ConvertMatches(h, m + 1, last_end, result)
    ELSE LET start == MatchEnd(h, m + 1)
             scan == ScanExpression(Slice(h, start, Len(h)), 0, 0, <<>>)
             expr == RStripPunctuation(RStrip(LStrip(scan.expr)))
         IN  ConvertMatches(h, start, start + scan.i,
                            result \o Slice(h, last_end, m) \o <<"\\(">> \o expr \o <<"\\)">>)

convert_latex_in_html(h) == ConvertMatches(h, 0, 0, <<>>)

\* img.get('data-equation-content', '') of an equation image
EquationContent(t) ==
    IF t = "<img class=\"equation_image\" data-equation-content=\"x\"/>" THEN <<"x">> ELSE <<>>

IsEquationImage(t) ==
    t \in {"<img class=\"equation_image\" data-equation-content=\"x\"/>",
           "<img class=\"equation_image\" data-equation-content=\"\"/>"}

\* every equation image with a non-empty source expression becomes a math span
RECURSIVE convert_canvas_equation_images(_)
convert_canvas_equation_images(h) ==
    IF h = <<>> THEN <<>>
    ELSE (IF IsEquationImage(Head(h)) /\ EquationContent(Head(h)) # <<>>
          THEN <<"<span class=\"math inline\">", "\\(">> \o EquationContent(Head(h))
               \o <<"\\)", "</span>">>
          ELSE <<Head(h)>>)
         \o convert_canvas_equation_images(Tail(h))

\* str.strip() is non-empty
NonBlank(h) == \E i \in 1..Len(h) : ~IsSpace(h[i])

sanitize_student_answer(answer_html) ==
    IF ~NonBlank(answer_html) THEN <<>>
    ELSE convert_latex_in_html(convert_canvas_equation_images(answer_html))

(***************************************************************************)
(* Serialised HTML: str(soup).  A tag opens, its own strings follow, then  *)
(* its children, then it closes.                                           *)
(***************************************************************************)
OpenTok(n, t) ==
    [k |-> "open", n |-> n, name |-> t.name, class |-> t.class, version |-> t.version,
     part |-> t.part, s |-> ""]

CloseTok(n, t) ==
    [k |-> "close", n |-> n, name |-> t.name, class |-> t.class, version |-> t.version,
     part |-> t.part, s |-> ""]

TextTok(s) ==
    [k |-> "text", n |-> None, name |-> "", class |-> <<>>, version |-> "", part |-> "", s |-> s]

TextToks(text) == [i \in 1..Len(text) |-> TextTok(text[i])]

RECURSIVE Serialize(_, _)
Serialize(sp, ns) ==
    IF ns = <<>> THEN <<>>
    ELSE LET n == Head(ns)
         IN  <<OpenTok(n, sp.tag[n])>> \o TextToks(sp.tag[n].text)
             \o Serialize(sp, sp.kids[n]) \o <<CloseTok(n, sp.tag[n])>>
             \o Serialize(sp, Tail(ns))

Str(sp) == Serialize(sp, <<HtmlRoot>>)

\* str.replace(old, new), old a single text unit
RECURSIVE Replace(_, _, _)
Replace(h, old, new) ==
    IF h = <<>> THEN <<>>
    ELSE (IF Head(h).k = "text" /\ Head(h).s = old THEN new ELSE <<Head(h)>>)
         \o Replace(Tail(h), old, new)

(***************************************************************************)
(* html_generator                                                          *)
(***************************************************************************)
\* a faulty search: only the containers that are children of <body> (recursive=False)
FindTopLevelVariantDivs(sp) ==
    SelectSeq(sp.kids[BodyTag],
              LAMBDA n : sp.tag[n].name = "div" /\ InSeq("question-version", sp.tag[n].class))

\* soup.find_all('div', class_='question-version')
FindVariantDivs(sp) ==
    SelectSeq(AllElements(sp),
              LAMBDA n : sp.tag[n].name = "div" /\ InSeq("question-version", sp.tag[n].class))

RECURSIVE ExtractAll(_, _)
ExtractAll(sp, ns) ==
    IF ns = <<>> THEN sp ELSE ExtractAll(Extract(sp, Head(ns)), Tail(ns))

\* a faulty removal: the other containers are extracted, the student's stays in place
HideInPlace(sp, variant_to_show) ==
    LET variant_divs == FindVariantDivs(sp)
    IN  ExtractAll(sp, SelectSeq(variant_divs,
                                 LAMBDA d : sp.tag[d].version # ToString(variant_to_show)))

hide_other_variants(sp, variant_to_show) ==
    LET variant_divs == FindVariantDivs(sp)
        matching == SelectSeq(variant_divs,
                              LAMBDA d : sp.tag[d].version = ToString(variant_to_show))
        variant_to_keep == IF matching = <<>> THEN None ELSE Head(matching)
        removed == ExtractAll(sp, variant_divs)
    IN  IF variant_to_keep # None /\ BodyTag \in Nodes(sp)
        THEN AppendTo(removed, BodyTag, variant_to_keep)
        ELSE removed

\* A dict from part letter to answer markup is a function on all letters; a letter
\* that is no key of the dict maps to KeyAbsent.
KeyAbsent == <<"<no key>">>

HasKey(answers, l) == answers[l] # KeyAbsent

NoAnswers == [l \in Range(part_letters) |-> KeyAbsent]

\* list(answers.keys()), in insertion order (the parser inserts a, b, c)
Keys(answers) == SelectSeq(part_letters, LAMBDA l : HasKey(answers, l))

\* lines 89-97; num_parts = 0 stands for None
PartsToProcess(answers, num_parts) ==
    IF num_parts # 0
    THEN SubSeq(part_letters, 1, Min(num_parts, Len(part_letters)))
    ELSE Keys(answers)

NoAnswerMarker == <<"<p><em>(No answer provided)</em></p>">>

\* a faulty replacement: "if answer_html:" without the strip() test
InsertOneAnswerNoStrip(h, answers, part_letter) ==
    IF HasKey(answers, part_letter) /\ answers[part_letter] # <<>>
    THEN Replace(h, Placeholder(part_letter),
                 TextToks(sanitize_student_answer(answers[part_letter])))
    ELSE Replace(h, Placeholder(part_letter), TextToks(NoAnswerMarker))

\* a faulty lookup: the answer read is taken out of the student's dict
AnswersAfterPop(answers, part_letter) == [answers EXCEPT ![part_letter] = KeyAbsent]

\* line 106: answers.get(part_letter) reads the dict and leaves it as it was
AnswersAfterGet(answers, part_letter) == answers

\* lines 99-113: one iteration of the loop
InsertOneAnswer(h, answers, part_letter) ==
    IF HasKey(answers, part_letter) /\ NonBlank(answers[part_letter])
    THEN Replace(h, Placeholder(part_letter),
                 TextToks(sanitize_student_answer(answers[part_letter])))
    ELSE Replace(h, Placeholder(part_letter), TextToks(NoAnswerMarker))

RECURSIVE InsertFrom(_, _, _, _)
InsertFrom(h, answers, parts, i) ==
    IF i >= Len(parts) THEN h
    ELSE InsertFrom(InsertOneAnswer(h, answers, parts[i + 1]), answers, parts, i + 1)

insert_student_answers(h, answers, num_parts) ==
    InsertFrom(h, answers, PartsToProcess(answers, num_parts), 0)

InfoDiv == Node("student_info", 0, 0)

\* lines 150-171: the banner; the parser never sets 'id', so the Canvas ID reads N/A
StudentInfo(st) ==
    LET div == Tag("div", <<"student-info">>, "", "", "", <<>>)
        h2 == PlainTag("h2", <<>>)
        p == PlainTag("p", <<>>)
    IN  <<OpenTok(InfoDiv, div),
          OpenTok(Node("info_heading", 0, 0), h2), TextTok("Student: "), TextTok(st.name),
          CloseTok(Node("info_heading", 0, 0), h2),
          OpenTok(Node("info_sisid", 0, 0), p), TextTok("SISID: "), TextTok(st.sisid),
          CloseTok(Node("info_sisid", 0, 0), p),
          OpenTok(Node("info_id", 0, 0), p), TextTok("Canvas ID: "), TextTok("N/A"),
          CloseTok(Node("info_id", 0, 0), p),
          CloseTok(InfoDiv, div)>>

\* lines 173-176: the banner becomes the first child of <body>
AddStudentInfo(h, st) ==
    IF \E i \in 1..Len(h) : h[i].k = "open" /\ h[i].name = "body"
    THEN LET b == CHOOSE i \in 1..Len(h) :
                     /\ h[i].k = "open" /\ h[i].name = "body"
                     /\ \A j \in 1..(i - 1) : ~(h[j].k = "open" /\ h[j].name = "body")
         IN  SubSeq(h, 1, b) \o StudentInfo(st) \o SubSeq(h, b + 1, Len(h))
    ELSE h

generate_student_html(template, st, group_id, num_parts) ==
    LET group_data == st.groups[group_id]
        hidden == Str(hide_other_variants(template, group_data.variant))
    IN  AddStudentInfo(insert_student_answers(hidden, group_data.answers, num_parts), st)

NoStudent == [name |-> "", sisid |-> "", groups |-> <<>>]

\* nothing is being bound
BinderIdle ==
    /\ student = NoStudent
    /\ num_parts_arg = 0
    /\ html = <<>>
    /\ part_i = 0

\* no export has been opened
ParserIdle ==
    /\ columns = <<>>
    /\ num_rows = 0
    /\ variant_columns = <<>>
    /\ shared_columns = <<>>
    /\ row_idx = 0
    /\ row = <<>>
    /\ group_idx = 0
    /\ student_rec = NoStudent
    /\ students_len = 0

\* nothing has been sanitized or bound a second time
SanitizerIdle ==
    /\ fragment = <<>>
    /\ cleaned = <<>>
    /\ cleaned_again = <<>>
    /\ converted = <<>>
    /\ html_again = <<>>

NoSummary == [printed |-> FALSE, generated |-> 0, total |-> 0]

\* no template file has been looked at, no pdf has failed, no summary is printed
StoreIdle ==
    /\ force_regenerate = FALSE
    /\ template_files = <<>>
    /\ saved = {}
    /\ failures = 0
    /\ summary = NoSummary

\* no batch of pdfs is being generated
BatchIdle ==
    /\ tasks = <<>>
    /\ batch_result = 0

NoArgs == [limit |-> 0, student |-> "", no_zip |-> FALSE, regenerate |-> FALSE]

\* run_quiz has not been invoked
CliIdle ==
    /\ cli_args = NoArgs
    /\ csv_exists = FALSE
    /\ config_state = ""
    /\ exit_status = 0
    /\ workflow_started = FALSE

PreprocessIdle ==
    /\ latex_content = <<>>
    /\ image_map = <<>>
    /\ preprocessed = <<>>

\* no quiz is being processed
QuizIdle ==
    /\ quiz_groups = <<>>
    /\ limit = 0
    /\ templates = <<>>
    /\ students = <<>>
    /\ student_idx = 0
    /\ group_pos = 0
    /\ written = {}
    /\ pdf_count = 0

(***************************************************************************)
(* Template assembly as a state machine.                                   *)
(***************************************************************************)
InitTemplate ==
    /\ pc = "assemble"
    /\ \E names \in RubricBodies :
          /\ group \in GroupsFor(names)
          /\ soup = PandocDocument(names)
    /\ sections = FindSections(soup)
    /\ version_num = Len(sections)
    /\ BinderIdle
    /\ ParserIdle
    /\ QuizIdle
    /\ SanitizerIdle
    /\ StoreIdle
    /\ BatchIdle
    /\ CliIdle
    /\ PreprocessIdle

WrapSection ==
    /\ pc = "assemble"
    /\ version_num >= 1
    /\ soup' = WrapOneSection(soup, group, sections, version_num)
    /\ version_num' = version_num - 1
    /\ UNCHANGED <<pc, group, sections, binderVars, parserVars, quizVars,
                   sanitizerVars, html_again, storeVars, batchVars, cliVars, preprocessVars>>

FinishTemplate ==
    /\ pc = "assemble"
    /\ version_num = 0
    /\ soup' = AttachStyle(soup)
    /\ pc' = "template"
    /\ UNCHANGED <<group, sections, version_num, binderVars, parserVars, quizVars,
                   sanitizerVars, html_again, storeVars, batchVars, cliVars, preprocessVars>>

(***************************************************************************)
(* generate_student_html as a state machine: hide the other variants, then *)
(* one step per iteration of the loop of insert_student_answers, then the  *)
(* banner.                                                                 *)
(***************************************************************************)
PlainAnswer == <<"<p>", "6", "</p>">>

AnswerChoices == {KeyAbsent, PlainAnswer}

\* the dicts whose keys are among `letters`
AnswerDicts(choices, letters) ==
    {a \in [Range(part_letters) -> choices \cup {KeyAbsent}] :
        \A l \in Range(part_letters) \ letters : a[l] = KeyAbsent}

StudentRecord(variant, answers) ==
    [name |-> "Alice Smith", sisid |-> "1",
     groups |-> [g \in {"q1"} |-> [variant |-> variant, tag |-> "", answers |-> answers]]]

HideOtherVariants(choices, letters, args) ==
    /\ pc = "template"
    /\ \E variant \in 1..Len(sections) :
          /\ html' = Str(hide_other_variants(soup, variant))
          /\ \E answers \in AnswerDicts(choices, letters) :
                student' = StudentRecord(variant, answers)
    /\ num_parts_arg' \in args
    /\ part_i' = 0
    /\ pc' = "insert"
    /\ UNCHANGED <<assemblerVars, parserVars, quizVars,
                   sanitizerVars, html_again, storeVars, batchVars, cliVars, preprocessVars>>

InsertStudentAnswer ==
    /\ pc = "insert"
    /\ LET answers == student.groups[group.id].answers
           parts_to_process == PartsToProcess(answers, num_parts_arg)
       IN  /\ part_i < Len(parts_to_process)
           /\ html' = InsertOneAnswer(html, answers, parts_to_process[part_i + 1])
           /\ student' = [student EXCEPT !.groups[group.id].answers =
                                             AnswersAfterGet(@, parts_to_process[part_i + 1])]
    /\ part_i' = part_i + 1
    /\ UNCHANGED <<pc, assemblerVars, num_parts_arg, parserVars, quizVars,
                   sanitizerVars, html_again, storeVars, batchVars, cliVars, preprocessVars>>

ReturnStudentHtml ==
    /\ pc = "insert"
    /\ part_i = Len(PartsToProcess(student.groups[group.id].answers, num_parts_arg))
    /\ html' = AddStudentInfo(html, student)
    /\ pc' = "bound"
    /\ UNCHANGED <<assemblerVars, student, num_parts_arg, part_i, parserVars, quizVars,
                   sanitizerVars, html_again, storeVars, batchVars, cliVars, preprocessVars>>

Next ==
    \/ WrapSection
    \/ FinishTemplate
    \/ HideOtherVariants(AnswerChoices, {"a"}, {0, group.num_parts})
    \/ InsertStudentAnswer
    \/ ReturnStudentHtml

Spec == InitTemplate /\ [][Next]_vars

(***************************************************************************)
(* Binding against the persisted template of a rubric whose variants each  *)
(* have num_parts parts with a solution box, for answers of every kind:    *)
(* no key, empty, blank, plain markup, a "LaTeX:" expression, and text     *)
(* that spells a placeholder label.                                        *)
(***************************************************************************)
RichAnswerChoices ==
    {KeyAbsent, <<>>, <<" ">>, PlainAnswer, <<"LaTeX:", " ", "x", ",">>, <<"{{PART_B}}">>}

RECURSIVE Repeat(_, _)
Repeat(s, n) == IF n = 0 THEN <<>> ELSE s \o Repeat(s, n - 1)

WellFormedBody(versions, parts) ==
    Repeat(<<"h1", "p">> \o Repeat(<<"h2", "blockquote">>, parts), versions)

InitBind ==
    /\ pc = "template"
    /\ \E versions \in 1..MaxVersions, parts \in 1..MaxNumParts :
          /\ group = [id |-> "q1", num_parts |-> parts, page_break |-> "same-page",
                      num_versions |-> versions]
          /\ soup = add_question_structure_and_placeholders(
                        PandocDocument(WellFormedBody(versions, parts)), group)
          /\ sections = FindSections(PandocDocument(WellFormedBody(versions, parts)))
    /\ version_num = 0
    /\ BinderIdle
    /\ ParserIdle
    /\ QuizIdle
    /\ SanitizerIdle
    /\ StoreIdle
    /\ BatchIdle
    /\ CliIdle
    /\ PreprocessIdle

NextBind ==
    \/ HideOtherVariants(RichAnswerChoices, {"a", "b"}, 0..MaxNumParts)
    \/ InsertStudentAnswer
    \/ ReturnStudentHtml

SpecBind == InitBind /\ [][NextBind]_vars

(***************************************************************************)
(* The Canvas export.  A cell is a string, kept as the sequence of its     *)
(* pieces; an empty cell is what pandas reads as NaN.  The export has the  *)
(* columns Name and SISID and then one block of three columns per question *)
(* (the answer, the points, the status).  Column indices are zero-based as *)
(* in the code, so row.iloc[i] is row[i + 1].                              *)
(***************************************************************************)
NaN == <<"<NaN>">>

\* pd.notna
notna(cell) == cell # NaN

TagString(q, k) == ToString(q) \o "." \o ToString(k)

\* config['question_groups']: the id and the variant_tags of each group
question_groups ==
    << [id |-> "q1", variant_tags |-> [k \in 1..MaxVersions |-> TagString(1, k)]],
       [id |-> "q2", variant_tags |-> <<TagString(2, 1)>>] >>

GroupIds == {question_groups[i].id : i \in 1..Len(question_groups)}

ConfigTags == UNION {Range(question_groups[i].variant_tags) : i \in 1..Len(question_groups)}

TaggedHeader(t) == <<t, ":", " ", "value of the flow">>

BracketedHeader(t) == <<"[", t, "]", " ", "What is the max flow?">>

PartitionHeader == <<"give a ", "partition", " that is a ", "minimum", " ", "cut">>

PartBHeader == <<"Part B:", " ", "explain">>

QuestionHeaders ==
    {TaggedHeader(t) : t \in ConfigTags}
        \cup {BracketedHeader(TagString(1, 1)), PartitionHeader, PartBHeader}

Block(h) == <<h, <<"Earned Points">>, <<"Status">>>>

IsInjective(s) == \A i, j \in 1..Len(s) : s[i] = s[j] => i = j

\* the header rows: the questions of an export have distinct titles
Headers ==
    {<<<<"Name">>, <<"SISID">>>> \o Concat([i \in 1..Len(qs) |-> Block(qs[i])]) :
        qs \in {s \in UNION {SeqsOf(QuestionHeaders, n) : n \in 1..MaxBlocks} : IsInjective(s)}}

\* the answer, points and status cells of one student for one question
CellTriples ==
    { <<NaN, NaN, NaN>>,
      <<NaN, <<"0">>, <<"Not Shown">>>>,
      <<NaN, <<"0">>, <<"Not Attempted">>>>,
      <<<<" ">>, <<"0">>, <<"Complete">>>>,
      <<<<"<p>", "6", "</p>">>, <<"1">>, <<"Complete">>>> }

RowsFor(cols) ==
    {<<<<"Alice Smith">>, <<"1">>>> \o Concat(ts) :
        ts \in SeqsOf(CellTriples, (Len(cols) - 2) \div 3)}

\* str(cell) of a cell that holds one piece
CellStr(cell) == IF cell = NaN THEN "nan" ELSE cell[1]

(***************************************************************************)
(* csv_parser.py.  A dict keeps its keys in the order of first insertion,  *)
(* and that order is what .items() iterates: a dict is the sequence of its *)
(* items.                                                                  *)
(***************************************************************************)
DictHas(d, key) == \E i \in 1..Len(d) : d[i].key = key

DictGet(d, key) == d[CHOOSE i \in 1..Len(d) : d[i].key = key].value

DictSet(d, key, value) ==
    IF DictHas(d, key)
    THEN [i \in 1..Len(d) |-> IF d[i].key = key THEN [key |-> key, value |-> value] ELSE d[i]]
    ELSE Append(d, [key |-> key, value |-> value])

\* \d+\.\d+ on one piece of a header
TagTexts == {TagString(q, k) : q \in 1..9, k \in 1..12}

IsTagText(t) == t \in TagTexts

NoMatch == ""

\* re.match(r'^(\d+\.\d+)', col_text): the tag, if the text starts with one
MatchTagAtStart(col_text) ==
    IF col_text # <<>> /\ IsTagText(Head(col_text)) THEN Head(col_text) ELSE NoMatch

\* the tag that the first bracketed marker [X.Y] of a header names, if it has one
MatchBracketedTag(col_text) ==
    IF \E i \in 1..(Len(col_text) - 2) :
          col_text[i] = "[" /\ IsTagText(col_text[i + 1]) /\ col_text[i + 2] = "]"
    THEN col_text[1 + CHOOSE i \in 1..(Len(col_text) - 2) :
             /\ col_text[i] = "[" /\ IsTagText(col_text[i + 1]) /\ col_text[i + 2] = "]"
             /\ \A j \in 1..(i - 1) :
                   ~(col_text[j] = "[" /\ IsTagText(col_text[j + 1]) /\ col_text[j + 2] = "]")]
    ELSE NoMatch

RECURSIVE FindVariantColumnsFrom(_, _, _)
FindVariantColumnsFrom(cols, col_idx, variant_cols) ==
    IF col_idx >= Len(cols) THEN variant_cols
    ELSE LET tag == MatchTagAtStart(LStrip(RStrip(cols[col_idx + 1])))
         IN  FindVariantColumnsFrom(cols, col_idx + 1,
                 IF tag # NoMatch THEN DictSet(variant_cols, tag, col_idx) ELSE variant_cols)

find_variant_columns(cols) == FindVariantColumnsFrom(cols, 0, <<>>)

\* str.lower on one piece of a header
Lower(t) ==
    CASE t = "Part B:" -> "part b:"
      [] t = "Part C:" -> "part c:"
      [] t = "Name" -> "name"
      [] t = "SISID" -> "sisid"
      [] t = "Status" -> "status"
      [] t = "Earned Points" -> "earned points"
      [] t = "What is the max flow?" -> "what is the max flow?"
      [] OTHER -> t

LowerText(text) == [i \in 1..Len(text) |-> Lower(text[i])]

StartsWith(text, piece) == text # <<>> /\ Head(text) = piece

RECURSIVE FindSharedFrom(_, _, _)
FindSharedFrom(cols, col_idx, shared) ==
    IF col_idx >= Len(cols) THEN shared
    ELSE LET col_text == LStrip(RStrip(LowerText(cols[col_idx + 1])))
             s1 == IF InSeq("partition", col_text) /\ InSeq("minimum", col_text)
                        /\ InSeq("cut", col_text)
                   THEN DictSet(shared, "q1_b", col_idx) ELSE shared
             s2 == IF StartsWith(col_text, "part b:") THEN DictSet(s1, "q2_b", col_idx)
                   ELSE IF StartsWith(col_text, "part c:") THEN DictSet(s1, "q2_c", col_idx)
                   ELSE s1
         IN  FindSharedFrom(cols, col_idx + 1, s2)

find_shared_subpart_columns(cols) == FindSharedFrom(cols, 0, <<>>)

NoResult == <<>>

\* a faulty mapping: the position of the tag in the list, counted from zero
MapTagToGroupZeroBased(tag) ==
    IF \E i \in 1..Len(question_groups) : InSeq(tag, question_groups[i].variant_tags)
    THEN LET g == question_groups[CHOOSE i \in 1..Len(question_groups) :
                      /\ InSeq(tag, question_groups[i].variant_tags)
                      /\ \A j \in 1..(i - 1) : ~InSeq(tag, question_groups[j].variant_tags)]
         IN  <<g.id, IndexOf(tag, g.variant_tags) - 1>>
    ELSE NoResult

\* (group_id, variant_number) of the first group that lists the tag, or None
map_tag_to_group(tag) ==
    IF \E i \in 1..Len(question_groups) : InSeq(tag, question_groups[i].variant_tags)
    THEN LET g == question_groups[CHOOSE i \in 1..Len(question_groups) :
                      /\ InSeq(tag, question_groups[i].variant_tags)
                      /\ \A j \in 1..(i - 1) : ~InSeq(tag, question_groups[j].variant_tags)]
         IN  <<g.id, (IndexOf(tag, g.variant_tags) - 1) + 1>>
    ELSE NoResult

NoTag == ""

\* lines 131-135: the status cell two columns after the tagged one names a variant the
\* student received
Qualifies(r, col_idx) ==
    LET status_col_idx == col_idx + 2
    IN  /\ status_col_idx < Len(r)
        /\ notna(r[status_col_idx + 1])
        /\ r[status_col_idx + 1] \notin {<<"Not Attempted">>, <<"Not Shown">>}

RECURSIVE FindStudentVariantFrom(_, _, _, _)
FindStudentVariantFrom(vcols, r, group_id, i) ==
    IF i > Len(vcols) THEN NoTag
    ELSE LET result == map_tag_to_group(vcols[i].key)
         IN  IF result = NoResult \/ result[1] # group_id
             THEN FindStudentVariantFrom(vcols, r, group_id, i + 1)
             ELSE IF Qualifies(r, vcols[i].value) THEN vcols[i].key
             ELSE FindStudentVariantFrom(vcols, r, group_id, i + 1)

\* the first qualifying tag of the group, in the order of variant_columns.items()
find_student_variant(vcols, r, group_id) == FindStudentVariantFrom(vcols, r, group_id, 1)

\* answers[letter] = str(answer) when the cell of the column holds something
AnswerFrom(answers, letter, present, r, col_idx) ==
    IF present /\ notna(r[col_idx + 1]) /\ NonBlank(r[col_idx + 1])
    THEN [answers EXCEPT ![letter] = r[col_idx + 1]]
    ELSE answers

extract_subpart_answers(vcols, shared, r, tag, group_id) ==
    LET part_b_key == group_id \o "_b"
        part_c_key == group_id \o "_c"
        a == AnswerFrom(NoAnswers, "a", DictHas(vcols, tag), r,
                        IF DictHas(vcols, tag) THEN DictGet(vcols, tag) ELSE 0)
        b == AnswerFrom(a, "b", DictHas(shared, part_b_key), r,
                        IF DictHas(shared, part_b_key) THEN DictGet(shared, part_b_key) ELSE 0)
    IN  AnswerFrom(b, "c", DictHas(shared, part_c_key), r,
                   IF DictHas(shared, part_c_key) THEN DictGet(shared, part_c_key) ELSE 0)

\* a group id that is not yet a key of the student dict
NotSet == [variant |-> 0, tag |-> "", answers |-> NoAnswers]

\* a faulty fallback: built on the last tag of the group
FallbackOnLastTag(g) ==
    [variant |-> Len(g.variant_tags), tag |-> g.variant_tags[Len(g.variant_tags)],
     answers |-> NoAnswers]

\* lines 226-231
Fallback(g) == [variant |-> 1, tag |-> g.variant_tags[1], answers |-> NoAnswers]

\* lines 211-231: what the loop body stores under the group id
GroupEntry(vcols, shared, r, g) ==
    LET tag == find_student_variant(vcols, r, g.id)
    IN  IF tag # NoTag
        THEN LET result == map_tag_to_group(tag)
             IN  IF result # NoResult
                 THEN [variant |-> result[2], tag |-> tag,
                       answers |-> extract_subpart_answers(vcols, shared, r, tag, g.id)]
                 ELSE NotSet
        ELSE Fallback(g)

ColumnOf(cols, title) == CHOOSE i \in 1..Len(cols) : cols[i] = <<title>>

\* lines 201-204
NewStudent(cols, r) ==
    [name |-> CellStr(r[ColumnOf(cols, "Name")]),
     sisid |-> IF notna(r[ColumnOf(cols, "SISID")]) THEN CellStr(r[ColumnOf(cols, "SISID")])
               ELSE "",
     groups |-> [gid \in GroupIds |-> NotSet]]

(***************************************************************************)
(* Parsing an export as a state machine: the constructor, then             *)
(* get_student_data row by row and, within a row, group by group.          *)
(***************************************************************************)
NoGroup == [id |-> "", num_parts |-> 0, page_break |-> "", num_versions |-> 0]

AssemblerIdle ==
    /\ group = NoGroup
    /\ soup = [tag |-> <<>>, kids |-> <<>>]
    /\ sections = <<>>
    /\ version_num = 0

InitCsv ==
    /\ pc = "open"
    /\ columns \in Headers
    /\ num_rows = MaxRows
    /\ variant_columns = <<>>
    /\ shared_columns = <<>>
    /\ row_idx = 0
    /\ row = <<>>
    /\ group_idx = 0
    /\ student_rec = NoStudent
    /\ students_len = 0
    /\ AssemblerIdle
    /\ BinderIdle
    /\ QuizIdle
    /\ SanitizerIdle
    /\ StoreIdle
    /\ BatchIdle
    /\ CliIdle
    /\ PreprocessIdle

\* CanvasCSVParser.__init__
OpenCsv ==
    /\ pc = "open"
    /\ variant_columns' = find_variant_columns(columns)
    /\ shared_columns' = find_shared_subpart_columns(columns)
    /\ pc' = "rows"
    /\ UNCHANGED <<columns, num_rows, row_idx, row, group_idx, student_rec, students_len,
                   assemblerVars, binderVars, quizVars,
                   sanitizerVars, html_again, storeVars, batchVars, cliVars, preprocessVars>>

\* the next row of df_subset.iterrows()
NextRow ==
    /\ pc = "rows"
    /\ row_idx < num_rows
    /\ \E r \in RowsFor(columns) :
          /\ row' = r
          /\ student_rec' = NewStudent(columns, r)
    /\ group_idx' = 0
    /\ pc' = "groups"
    /\ UNCHANGED <<columns, num_rows, variant_columns, shared_columns, row_idx, students_len,
                   assemblerVars, binderVars, quizVars,
                   sanitizerVars, html_again, storeVars, batchVars, cliVars, preprocessVars>>

\* one iteration of the loop over config['question_groups']
ProcessGroup ==
    /\ pc = "groups"
    /\ group_idx < Len(question_groups)
    /\ LET g == question_groups[group_idx + 1]
           entry == GroupEntry(variant_columns, shared_columns, row, g)
       IN  student_rec' = IF entry = NotSet THEN student_rec
                          ELSE [student_rec EXCEPT !.groups[g.id] = entry]
    /\ group_idx' = group_idx + 1
    /\ UNCHANGED <<pc, columns, num_rows, variant_columns, shared_columns, row_idx, row,
                   students_len, assemblerVars, binderVars, quizVars,
                   sanitizerVars, html_again, storeVars, batchVars, cliVars, preprocessVars>>

\* students.append(student)
AppendStudent ==
    /\ pc = "groups"
    /\ group_idx = Len(question_groups)
    /\ students_len' = students_len + 1
    /\ row_idx' = row_idx + 1
    /\ pc' = "rows"
    /\ UNCHANGED <<columns, num_rows, variant_columns, shared_columns, row, group_idx,
                   student_rec, assemblerVars, binderVars, quizVars,
                   sanitizerVars, html_again, storeVars, batchVars, cliVars, preprocessVars>>

\* return students
ReturnStudents ==
    /\ pc = "rows"
    /\ row_idx = num_rows
    /\ pc' = "returned"
    /\ UNCHANGED <<assemblerVars, binderVars, parserVars, quizVars,
                   sanitizerVars, html_again, storeVars, batchVars, cliVars, preprocessVars>>

NextCsv == OpenCsv \/ NextRow \/ ProcessGroup \/ AppendStudent \/ ReturnStudents

SpecCsv == InitCsv /\ [][NextCsv]_vars

(***************************************************************************)
(* orchestrator.py: process_quiz.  The export of a quiz run has one block  *)
(* per configured tag, in the order of the config, and then the two shared *)
(* subpart columns.  A student is shown at most one variant of the first   *)
(* group.                                                                  *)
(***************************************************************************)
\* config['question_groups'] with the fields the assembler and the binder read
QuizGroups(parts) ==
    << [id |-> "q1", name |-> "Network Flow", variant_tags |-> question_groups[1].variant_tags,
        num_parts |-> parts, num_versions |-> Len(question_groups[1].variant_tags),
        page_break |-> "same-page"],
       [id |-> "q2", name |-> "Bipartite Matching",
        variant_tags |-> question_groups[2].variant_tags,
        num_parts |-> 1, num_versions |-> Len(question_groups[2].variant_tags),
        page_break |-> "same-page"] >>

AllTags == question_groups[1].variant_tags \o question_groups[2].variant_tags

QuizColumns ==
    <<<<"Name">>, <<"SISID">>>>
        \o Concat([i \in 1..Len(AllTags) |-> Block(TaggedHeader(AllTags[i]))])
        \o Block(PartitionHeader) \o Block(PartBHeader)

NotShown == <<NaN, <<"0">>, <<"Not Shown">>>>

Answered(cell) == <<cell, <<"1">>, <<"Complete">>>>

\* the students of an export: two whose names differ in punctuation only, and a third
Profiles ==
    <<[name |-> "O'Brien, John", sisid |-> "1"], [name |-> "OBrien John", sisid |-> "2"],
      [name |-> "Alice Smith", sisid |-> "3"]>>

Profile(n) == Profiles[((n - 1) % Len(Profiles)) + 1]

\* the row of a student who was shown variant v1 of the first group (0: none)
QuizRow(who, v1, a1, shared) ==
    <<<<who.name>>, <<who.sisid>>>>
        \o Concat([k \in 1..Len(question_groups[1].variant_tags) |->
                      IF k = v1 THEN Answered(a1) ELSE NotShown])
        \o Answered(PlainAnswer)
        \o Answered(shared) \o Answered(shared)

\* the exports of MaxRows rows for a config: the rows are those of consecutive students
QuizExports(groups) ==
    UNION {{[i \in 1..MaxRows |-> QuizRow(Profile(first + i - 1), c[i][1], c[i][2], c[i][3])] :
               c \in SeqsOf({<<v1, a1, shared>> :
                                v1 \in 0..Len(groups[1].variant_tags),
                                a1 \in {NaN, PlainAnswer},
                                shared \in {NaN, <<"<p>", "s", ",", "t", "</p>">>}}, MaxRows)} :
           first \in 1..2}

\* lines 200-233 of csv_parser.py: the record of one row
StudentOf(vcols, shared, cols, r) ==
    [NewStudent(cols, r) EXCEPT !.groups =
        [gid \in GroupIds |->
            GroupEntry(vcols, shared, r,
                       question_groups[CHOOSE i \in 1..Len(question_groups) :
                                           question_groups[i].id = gid])]]

\* df.head(limit) if limit else df; limit = 0 stands for None
Head_(df, lim) == IF lim # 0 THEN SubSeq(df, 1, Min(lim, Len(df))) ELSE df

\* CanvasCSVParser(csv_path, config).get_student_data(limit)
get_student_data(cols, df, lim) ==
    LET vcols == find_variant_columns(cols)
        shared == find_shared_subpart_columns(cols)
        df_subset == Head_(df, lim)
    IN  [i \in 1..Len(df_subset) |-> StudentOf(vcols, shared, cols, df_subset[i])]

\* re.sub(r'[^\w\s-]', '', name).replace(' ', '_') on the names of the export
sanitize_filename(name) ==
    CASE name = "Alice Smith" -> "Alice_Smith"
      [] name = "O'Brien, John" -> "OBrien_John"
      [] name = "OBrien John" -> "OBrien_John"
      [] name = "nan" -> "nan"
      [] OTHER -> name

\* group_name.lower().replace(' ', '_') on the names of the config
FolderName(name) ==
    CASE name = "Network Flow" -> "network_flow"
      [] name = "Bipartite Matching" -> "bipartite_matching"
      [] OTHER -> name

\* lines 178-187 of orchestrator.py: the html file of a (student, group) pair
HtmlPath(g, st) ==
    [dir |-> g.id \o "_" \o FolderName(g.name),
     file |-> g.id \o "v" \o ToString(st.groups[g.id].variant) \o "_nf_"
                  \o sanitize_filename(st.name)]

\* the rubric segment of a group: one variant per tag, each with the configured parts
RubricOf(g) == PandocDocument(WellFormedBody(g.num_versions, g.num_parts))

\* the configs: two question groups, or the first of them alone
QuizConfigs ==
    UNION {{QuizGroups(parts), SubSeq(QuizGroups(parts), 1, 1)} : parts \in 1..MaxNumParts}

\* templates/quizN/<group id>_template.html does not exist
NoFile == [tag |-> <<>>, kids |-> <<>>]

\* a faulty check: only the file of the first group is looked for
FirstExists(files, groups) == files[1] # NoFile

\* lines 43-48 of orchestrator.py: all_exist
AllExist(files, groups) == \A i \in 1..Len(groups) : files[i] # NoFile

\* the templates of a config, one per group, in the order of the groups
convert_rubric_to_templates(groups) ==
    [i \in 1..Len(groups) |->
        add_question_structure_and_placeholders(RubricOf(groups[i]), groups[i])]

\* what the headless browser does to one job: where it raises, and whether MathJax
\* reports that it has finished
Browsers == [fails : {"none", "launch", "load", "pdf"}, mathjax : {"ready", "timeout"}]

\* generate_pdf: True when page.pdf has written the file, False when anything outside
\* the inner try raised; a MathJax wait that raised prints a warning only
generate_pdf(b) ==
    [success |-> b.fails = "none",
     failed |-> b.fails # "none",
     warned |-> b.fails \notin {"launch", "load"} /\ b.mathjax = "timeout",
     pdf_written |-> b.fails = "none"]

InitQuiz ==
    /\ pc = "quiz"
    /\ quiz_groups \in QuizConfigs
    /\ limit \in {1, 2}
    /\ templates = <<>>
    /\ students = <<>>
    /\ student_idx = 0
    /\ group_pos = 0
    /\ written = {}
    /\ pdf_count = 0
    /\ force_regenerate = FALSE
    /\ template_files = [i \in 1..Len(quiz_groups) |-> NoFile]
    /\ saved = {}
    /\ failures = 0
    /\ summary = NoSummary
    /\ AssemblerIdle
    /\ BinderIdle
    /\ ParserIdle
    /\ SanitizerIdle
    /\ BatchIdle
    /\ CliIdle
    /\ PreprocessIdle

\* load_or_generate_templates: the templates are generated from the rubric and saved,
\* or the saved ones are loaded
LoadOrGenerateTemplates ==
    /\ pc = "quiz"
    /\ IF ~AllExist(template_files, quiz_groups) \/ force_regenerate
       THEN /\ templates' = convert_rubric_to_templates(quiz_groups)
            /\ template_files' = convert_rubric_to_templates(quiz_groups)
            /\ saved' = 1..Len(quiz_groups)
       ELSE /\ templates' = [i \in 1..Len(quiz_groups) |-> template_files[i]]
            /\ UNCHANGED <<template_files, saved>>
    /\ pc' = "parse"
    /\ UNCHANGED <<quiz_groups, limit, students, student_idx, group_pos, written, pdf_count,
                   force_regenerate, failures, summary, assemblerVars, binderVars, parserVars,
                   sanitizerVars, html_again, batchVars, cliVars, preprocessVars>>

\* lines 93-94: the export is read and the records are built
ParseCsv ==
    /\ pc = "parse"
    /\ \E df \in QuizExports(quiz_groups) :
          students' = get_student_data(QuizColumns, df, limit)
    /\ student_idx' = 1
    /\ group_pos' = 0
    /\ pc' = "render"
    /\ UNCHANGED <<quiz_groups, limit, templates, written, pdf_count,
                   assemblerVars, binderVars, parserVars,
                   sanitizerVars, html_again, storeVars, batchVars, cliVars, preprocessVars>>

\* lines 164-198: one iteration of the loop over the groups for the current student; the
\* rasterizer either writes the pdf or fails
RenderDocument ==
    /\ pc = "render"
    /\ student_idx <= Len(students)
    /\ group_pos < Len(quiz_groups)
    /\ LET g == quiz_groups[group_pos + 1]
           st == students[student_idx]
       IN  /\ group' = g
           /\ student' = st
           /\ num_parts_arg' = 0
           /\ html' = generate_student_html(templates[group_pos + 1], st, g.id, 0)
           /\ part_i' = Len(PartsToProcess(st.groups[g.id].answers, 0))
           /\ written' = written \cup {HtmlPath(g, st)}
    /\ \E b \in Browsers :
          LET success == generate_pdf(b).success
          IN  /\ pdf_count' = IF success THEN pdf_count + 1 ELSE pdf_count
              /\ failures' = IF generate_pdf(b).failed THEN failures + 1 ELSE failures
    /\ group_pos' = group_pos + 1
    /\ UNCHANGED <<pc, quiz_groups, limit, templates, students, student_idx,
                   soup, sections, version_num, parserVars, force_regenerate, template_files,
                   saved, summary, sanitizerVars, html_again, batchVars, cliVars, preprocessVars>>

\* the loop over the groups is over: the next student
NextStudent ==
    /\ pc = "render"
    /\ student_idx <= Len(students)
    /\ group_pos = Len(quiz_groups)
    /\ student_idx' = student_idx + 1
    /\ group_pos' = 0
    /\ UNCHANGED <<pc, quiz_groups, limit, templates, students, written, pdf_count,
                   assemblerVars, binderVars, parserVars,
                   sanitizerVars, html_again, storeVars, batchVars, cliVars, preprocessVars>>

\* lines 207-230: the summary; its text names config['question_groups'][0] and [1],
\* so building it raises IndexError for a config of one group
PrintSummary ==
    /\ pc = "render"
    /\ student_idx > Len(students)
    /\ IF Len(quiz_groups) < 2
       THEN /\ pc' = "raised"
            /\ UNCHANGED summary
       ELSE /\ pc' = "summary"
            /\ summary' = [printed |-> TRUE, generated |-> pdf_count,
                           total |-> Len(students) * Len(quiz_groups)]
    /\ UNCHANGED <<quiz_groups, limit, templates, students, student_idx, group_pos, written,
                   pdf_count, force_regenerate, template_files, saved, failures,
                   assemblerVars, binderVars, parserVars,
                   sanitizerVars, html_again, batchVars, cliVars, preprocessVars>>

NextQuiz == LoadOrGenerateTemplates \/ ParseCsv \/ RenderDocument \/ NextStudent \/ PrintSummary

SpecQuiz == InitQuiz /\ [][NextQuiz]_vars

(***************************************************************************)
(* Vocabulary of the properties.                                           *)
(***************************************************************************)
\* the elements pandoc returned, by position in <body>
SourceCount(sp) == Cardinality({n \in Nodes(sp) : n.k = "src"})

SourceName(sp, i) == sp.tag[SrcNode(i)].name

\* the variant a source element belongs to: the number of Question headings up to
\* and including it (0: it precedes the first Question heading)
SegmentOf(sp, i) == Cardinality({j \in 1..i : SourceName(sp, j) = "h1"})

\* the rubric gives every variant exactly num_parts parts, each directly followed by
\* its solution block
WellFormedRubric(sp, grp) ==
    \A v \in 1..grp.num_versions :
        LET parts == {i \in 1..SourceCount(sp) :
                         SourceName(sp, i) = "h2" /\ SegmentOf(sp, i) = v}
        IN  /\ Cardinality(parts) = grp.num_parts
            /\ \A i \in parts :
                  i + 1 <= SourceCount(sp) /\ SourceName(sp, i + 1) = "blockquote"

IsVariantDiv(sp, n) == sp.tag[n].name = "div" /\ InSeq("question-version", sp.tag[n].class)

VariantDivs(sp) == {n \in Nodes(sp) : IsVariantDiv(sp, n)}

\* the placeholder slots anywhere inside container d
SlotsInside(sp, d) ==
    {n \in Range(Descendants(sp, d)) : InSeq("answer-placeholder", sp.tag[n].class)}

ExpectedLabels(grp) == {Placeholder(part_letters[i]) : i \in 1..grp.num_parts}

\* the innermost variant container around n in the tree (None: n is in no container)
RECURSIVE OwnerOf(_, _)
OwnerOf(sp, n) ==
    IF n = None THEN None
    ELSE IF IsVariantDiv(sp, n) THEN n
    ELSE OwnerOf(sp, ParentOf(sp, n))

OpenTokens(h) == {h[i] : i \in {j \in 1..Len(h) : h[j].k = "open"}}

ContainerTokens(h) ==
    {i \in 1..Len(h) :
        h[i].k = "open" /\ h[i].name = "div" /\ InSeq("question-version", h[i].class)}

RecordedVariant == student.groups[group.id].variant

(***************************************************************************)
(* C5: the assembled template of a group has exactly num_versions          *)
(* question-version containers, their data-version values are distinct and *)
(* are exactly 1..num_versions, and the container that starts with the     *)
(* k-th Question heading of the document carries data-version k, whatever  *)
(* number the heading's text embeds.                                       *)
(***************************************************************************)
C5_ContainersNumberedByPosition ==
    pc = "template" =>
        /\ Cardinality(VariantDivs(soup)) = group.num_versions
        /\ {soup.tag[d].version : d \in VariantDivs(soup)}
              = {ToString(k) : k \in 1..group.num_versions}
        /\ \A d \in VariantDivs(soup) :
              /\ soup.kids[d] # <<>>
              /\ Head(soup.kids[d]).k = "src"
              /\ SourceName(soup, Head(soup.kids[d]).i) = "h1"
              /\ soup.tag[d].version = ToString(SegmentOf(soup, Head(soup.kids[d]).i))

\* a template with two containers or more, the first heading embedding a number
\* that is not its position
C5_Witness ==
    /\ pc = "template"
    /\ Cardinality(VariantDivs(soup)) >= 2
    /\ soup.tag[SrcNode(1)].name = "h1"
    /\ soup.tag[SrcNode(1)].text[3] # "1"

(***************************************************************************)
(* C6: in the assembled template of a rubric whose variants each have      *)
(* num_parts parts with a solution block, every question-version container *)
(* holds exactly num_parts placeholder slots, labelled {{PART_A}},         *)
(* {{PART_B}}, ... without repetition, counting the slots nested anywhere  *)
(* inside the container.                                                   *)
(***************************************************************************)
C6_NumPartsSlotsPerContainer ==
    (pc = "template" /\ WellFormedRubric(soup, group)) =>
        \A d \in VariantDivs(soup) :
            /\ Cardinality(SlotsInside(soup, d)) = group.num_parts
            /\ {soup.tag[n].text[1] : n \in SlotsInside(soup, d)} = ExpectedLabels(group)

(***************************************************************************)
(* C1: the document generate_student_html returns holds exactly one        *)
(* question-version container, and its data-version is the student's       *)
(* recorded variant index of the group.                                    *)
(***************************************************************************)
C1_ExactlyOneContainer ==
    pc = "bound" =>
        /\ Cardinality(ContainerTokens(html)) = 1
        /\ \A i \in ContainerTokens(html) : html[i].version = ToString(RecordedVariant)

\* a student whose variant is not the first of a template with nested containers
C1_Witness ==
    /\ pc = "bound"
    /\ group.num_versions >= 2
    /\ RecordedVariant = 2
    /\ OwnerOf(soup, ParentOf(soup, Wrapper(2))) = Wrapper(1)

(***************************************************************************)
(* C2: in the returned document every element of the template lies in no   *)
(* container or in the student's own one: no other container is left, and  *)
(* every heading, paragraph and solution block of the rubric that is       *)
(* present comes from the student's variant (or precedes the first         *)
(* question); a slot is present only if the template holds it in the       *)
(* student's container.                                                    *)
(***************************************************************************)
C2_OtherVariantsRemoved ==
    pc = "bound" =>
        \A t \in OpenTokens(html) :
            t.n \in Nodes(soup) =>
                /\ IsVariantDiv(soup, t.n) => soup.tag[t.n].version = ToString(RecordedVariant)
                /\ OwnerOf(soup, t.n) # None =>
                      soup.tag[OwnerOf(soup, t.n)].version = ToString(RecordedVariant)
                /\ t.n.k = "src" => SegmentOf(soup, t.n.i) \in {0, RecordedVariant}

\* the first variant of a template whose first container holds the second one
C2_Witness ==
    /\ pc = "bound"
    /\ group.num_versions >= 2
    /\ RecordedVariant = 1
    /\ Wrapper(2) \in Range(Descendants(soup, Wrapper(1)))
    /\ SlotsInside(soup, Wrapper(2)) # {}

\* the slots of a part letter in serialised html: the positions of the opening tags
\* of its answer-placeholder divs
SlotTokens(h, letter) ==
    {i \in 1..Len(h) :
        /\ h[i].k = "open"
        /\ h[i].n.k = "answer_placeholder"
        /\ part_letters[h[i].n.i + 1] = letter}

\* what stands between the opening tag at position i and its closing tag
SlotContent(h, i) ==
    LET c == CHOOSE j \in (i + 1)..Len(h) :
                 /\ h[j].k = "close" /\ h[j].n = h[i].n
                 /\ \A m \in (i + 1)..(j - 1) : ~(h[m].k = "close" /\ h[m].n = h[i].n)
    IN  SubSeq(h, i + 1, c - 1)

\* what the slot of a letter is to be replaced with
ExpectedContent(answers, letter) ==
    IF HasKey(answers, letter) /\ NonBlank(answers[letter])
    THEN TextToks(sanitize_student_answer(answers[letter]))
    ELSE TextToks(NoAnswerMarker)

ProcessedGroups ==
    IF pc = "groups" THEN 1..group_idx
    ELSE IF students_len >= 1 THEN 1..Len(question_groups)
    ELSE {}

\* the zero-based columns whose header text starts with a tag of the group
CandidateColumns(g) ==
    {c \in 0..(Len(columns) - 1) : MatchTagAtStart(columns[c + 1]) \in Range(g.variant_tags)}

\* the 1-based positions, in the group's tag list, of the tags whose tagged column has a
\* qualifying status cell in the current row
QualifyingPositions(g) ==
    {k \in 1..Len(g.variant_tags) :
        /\ DictHas(variant_columns, g.variant_tags[k])
        /\ Qualifies(row, DictGet(variant_columns, g.variant_tags[k]))}

Least(S) == CHOOSE k \in S : \A m \in S : k <= m

(***************************************************************************)
(* C7: when several tags of a group have a qualifying status cell in a     *)
(* student's row, the recorded variant is the first of them in the order   *)
(* of the group's configured tag list, whatever the order of the columns.  *)
(***************************************************************************)
C7_FirstQualifyingInTagListOrder ==
    \A i \in ProcessedGroups :
        LET g == question_groups[i]
            entry == student_rec.groups[g.id]
        IN  QualifyingPositions(g) # {} =>
                /\ entry.variant = Least(QualifyingPositions(g))
                /\ entry.tag = g.variant_tags[Least(QualifyingPositions(g))]

(***************************************************************************)
(* C8: once the export is opened, every column whose header carries a      *)
(* bracketed marker [X.Y] is recorded under the tag X.Y, and a column      *)
(* whose header has no such marker is not recorded as a tagged column.     *)
(***************************************************************************)
C8_BracketedTagExtracted ==
    pc # "open" =>
        \A c \in 0..(Len(columns) - 1) :
            LET tag == MatchBracketedTag(columns[c + 1])
            IN  IF tag # NoMatch
                THEN DictHas(variant_columns, tag) /\ DictGet(variant_columns, tag) = c
                ELSE \A i \in 1..Len(variant_columns) : variant_columns[i].value # c

(***************************************************************************)
(* C9: every entry of a student record names a variant within the bounds   *)
(* of the group's tag list, 1 <= v <= len(variant_tags), and its tag is    *)
(* variant_tags[v - 1]; a finished record has an entry for every group.    *)
(***************************************************************************)
C9_VariantWithinTagList ==
    \A i \in ProcessedGroups :
        LET g == question_groups[i]
            entry == student_rec.groups[g.id]
        IN  /\ entry.variant \in 1..Len(g.variant_tags)
            /\ entry.tag = g.variant_tags[(entry.variant - 1) + 1]

\* a returned record whose first group was detected as its second variant, with an answer
C9_Witness ==
    /\ pc = "returned"
    /\ students_len = num_rows
    /\ student_rec.groups["q1"].variant = 2
    /\ student_rec.groups["q1"].tag = "1.2"
    /\ HasKey(student_rec.groups["q1"].answers, "a")

(***************************************************************************)
(* C10: when no candidate column of a group has a qualifying status in a   *)
(* student's row, the entry of the group is variant 1 with the group's     *)
(* first tag and no answers; the remaining groups of the row still get     *)
(* their entries and every row of the export yields a record.              *)
(***************************************************************************)
C10_FallbackToFirstVariant ==
    /\ \A i \in ProcessedGroups :
          LET g == question_groups[i]
              entry == student_rec.groups[g.id]
          IN  (\A c \in CandidateColumns(g) : ~Qualifies(row, c)) =>
                  /\ entry.variant = 1
                  /\ entry.tag = g.variant_tags[1]
                  /\ Keys(entry.answers) = <<>>
    /\ pc = "returned" => students_len = num_rows

\* the last row of the export: the first group has a tagged column that was not shown to
\* the student and fell back, and the second group of the same row was then detected
C10_Witness ==
    /\ pc = "returned"
    /\ students_len = num_rows
    /\ CandidateColumns(question_groups[1]) # {}
    /\ \A c \in CandidateColumns(question_groups[1]) : row[c + 3] = <<"Not Shown">>
    /\ student_rec.groups["q1"] = [variant |-> 1, tag |-> "1.1", answers |-> NoAnswers]
    /\ student_rec.groups["q2"].tag = "2.1"
    /\ HasKey(student_rec.groups["q2"].answers, "a")

(***************************************************************************)
(* C3: in every document process_quiz builds for a (student, group) pair,  *)
(* the placeholder of each configured subpart (the first num_parts letters *)
(* of the group) has been resolved: no {{PART_X}} label of these letters   *)
(* remains in the document.                                                *)
(***************************************************************************)
C3_EveryPlaceholderResolved ==
    (pc \in {"render", "summary"} /\ html # <<>>) =>
        \A i \in 1..Len(html) :
            html[i].k = "text" =>
                html[i].s \notin {Placeholder(part_letters[j]) : j \in 1..group.num_parts}

(***************************************************************************)
(* C11: for the variant a student was shown (its status cell qualifies),   *)
(* a blank answer cell is recorded as subpart 'a' with an explicit empty   *)
(* string, the key being present; for a group none of whose variants was   *)
(* shown the record holds no subpart 'a'.                                  *)
(***************************************************************************)
C11_BlankShownSubpartIsEmptyString ==
    \A i \in ProcessedGroups :
        LET g == question_groups[i]
            entry == student_rec.groups[g.id]
        IN  IF QualifyingPositions(g) = {}
            THEN ~HasKey(entry.answers, "a")
            ELSE LET cell == row[DictGet(variant_columns, entry.tag) + 1]
                 IN  (cell = NaN \/ ~NonBlank(cell)) =>
                         /\ HasKey(entry.answers, "a")
                         /\ entry.answers["a"] = <<>>

(***************************************************************************)
(* The sanitizer on its own: an answer fragment is put together from a few *)
(* pieces of markup, sanitize_student_answer is applied to it and then to  *)
(* its own result, and convert_latex_in_html is applied to the fragment.   *)
(***************************************************************************)
MaxPieces == 4

Marker == <<"LaTeX:", " ">>

FragmentPieces ==
    {Marker, <<"x">>, <<",">>, <<" ", "and", " ">>, <<"\\left">>, <<"\\right">>, <<"<p>">>,
     <<"<img class=\"equation_image\" data-equation-content=\"x\"/>">>, <<" ">>}

InitSanitize ==
    /\ pc = "fragment"
    /\ fragment \in UNION {{Concat(ps) : ps \in SeqsOf(FragmentPieces, n)} : n \in 0..MaxPieces}
    /\ cleaned = <<>>
    /\ cleaned_again = <<>>
    /\ converted = <<>>
    /\ html_again = <<>>
    /\ AssemblerIdle
    /\ BinderIdle
    /\ ParserIdle
    /\ QuizIdle
    /\ StoreIdle
    /\ BatchIdle
    /\ CliIdle
    /\ PreprocessIdle

\* cleaned = sanitize_student_answer(answer_html)
Sanitize ==
    /\ pc = "fragment"
    /\ pc' = "sanitized"
    /\ cleaned' = sanitize_student_answer(fragment)
    /\ UNCHANGED <<fragment, cleaned_again, converted, html_again, assemblerVars, binderVars,
                   parserVars, quizVars, storeVars, batchVars, cliVars, preprocessVars>>

\* the sanitizer run on what it returned
SanitizeAgain ==
    /\ pc = "sanitized"
    /\ pc' = "sanitized again"
    /\ cleaned_again' = sanitize_student_answer(cleaned)
    /\ UNCHANGED <<fragment, cleaned, converted, html_again, assemblerVars, binderVars,
                   parserVars, quizVars, storeVars, batchVars, cliVars, preprocessVars>>

\* convert_latex_in_html(html) on the fragment itself
ConvertLatex ==
    /\ pc = "fragment"
    /\ pc' = "converted"
    /\ converted' = convert_latex_in_html(fragment)
    /\ UNCHANGED <<fragment, cleaned, cleaned_again, html_again, assemblerVars, binderVars,
                   parserVars, quizVars, storeVars, batchVars, cliVars, preprocessVars>>

NextSanitize ==
    \/ Sanitize
    \/ SanitizeAgain
    \/ ConvertLatex

SpecSanitize == InitSanitize /\ [][NextSanitize]_vars

(***************************************************************************)
(* C12: sanitize_student_answer is idempotent: sanitizing what the         *)
(* sanitizer returned gives the same fragment again, whatever the input,   *)
(* several 'LaTeX:' markers and equation images included.                  *)
(***************************************************************************)
C12_SanitizeIdempotent ==
    pc = "sanitized again" => cleaned_again = cleaned

(***************************************************************************)
(* Vocabulary of the stop-word claim: a fragment with one marker at m (the *)
(* m-th unit), the text after the marker and its whitespace, the places    *)
(* where a blank run followed by a stop-word and a blank begins, and the   *)
(* count of \left minus \right before a place.                             *)
(***************************************************************************)
MarkerPositions == {m \in 1..Len(fragment) : fragment[m] = "LaTeX:"}

TheMarker == CHOOSE m \in MarkerPositions : TRUE

BodyStart ==
    CHOOSE e \in TheMarker..Len(fragment) :
        /\ \A k \in (TheMarker + 1)..e : fragment[k] \in {" ", "\n", "\t"}
        /\ e = Len(fragment) \/ fragment[e + 1] \notin {" ", "\n", "\t"}

Body == SubSeq(fragment, BodyStart + 1, Len(fragment))

StopWords ==
    {"with", "to", "from", "of", "as", "which", "where", "and", "the", "is", "in", "that",
     "for", "if", "on"}

\* after the first j units of the body: blanks, then a stop-word, then a blank
BoundaryAt(j) ==
    \E k \in (j + 1)..(Len(Body) - 2) :
        /\ \A b \in (j + 1)..k : Body[b] \in {" ", "\n", "\t"}
        /\ Body[k + 1] \in StopWords
        /\ Body[k + 2] \in {" ", "\n", "\t"}

DepthAt(j) ==
    Cardinality({k \in 1..j : Body[k] = "\\left"})
        - Cardinality({k \in 1..j : Body[k] = "\\right"})

TagStartAt(k) == k <= Len(Body) /\ SubSeq(Body[k], 1, 1) = "<"

TrimPunctuation(e) ==
    LET keep == {n \in 0..Len(e) : \A k \in (n + 1)..Len(e) : e[k] \in {",", ".", ";", ":"}}
    IN  SubSeq(e, 1, CHOOSE n \in keep : \A n2 \in keep : n <= n2)

\* the fragment with the first j units of the body as its expression
WrappedUpTo(j) ==
    SubSeq(fragment, 1, TheMarker - 1) \o <<"\\(">> \o TrimPunctuation(SubSeq(Body, 1, j))
        \o <<"\\)">> \o SubSeq(Body, j + 1, Len(Body))

OneMarkerWithSpace ==
    /\ pc = "converted"
    /\ Cardinality(MarkerPositions) = 1
    /\ BodyStart > TheMarker

FirstBoundary == CHOOSE j \in 0..Len(Body) : BoundaryAt(j) /\ \A i \in 0..(j - 1) : ~BoundaryAt(i)

FirstOpenBoundary ==
    CHOOSE j \in 0..Len(Body) :
        /\ BoundaryAt(j) /\ DepthAt(j) = 0
        /\ \A i \in 0..(j - 1) : ~(BoundaryAt(i) /\ DepthAt(i) = 0)

BindAgain ==
    /\ pc = "bound"
    /\ html_again' = generate_student_html(soup, student, group.id, num_parts_arg)
    /\ pc' = "bound again"
    /\ UNCHANGED <<assemblerVars, binderVars, parserVars, quizVars, sanitizerVars, storeVars,
                   batchVars, cliVars, preprocessVars>>

NextRebind ==
    \/ HideOtherVariants(RichAnswerChoices, {"a", "b"}, 0..MaxNumParts)
    \/ InsertStudentAnswer
    \/ ReturnStudentHtml
    \/ BindAgain

SpecRebind == InitBind /\ [][NextRebind]_vars

JobsDone == (Min(student_idx, Len(students) + 1) - 1) * Len(quiz_groups) + group_pos

(***************************************************************************)
(* C15: distinct (student, group) render jobs of one run, of students with *)
(* distinct SISIDs, write to distinct paths: there are as many files       *)
(* written as jobs rendered.  (The pdf path has the same stem as the html  *)
(* path in a sibling directory.)                                           *)
(***************************************************************************)
C15_OutputPathsDistinct ==
    (/\ pc \in {"render", "summary", "raised"}
     /\ \A i, j \in 1..Len(students) : i # j => students[i].sisid # students[j].sisid)
        => Cardinality(written) = JobsDone

(***************************************************************************)
(* C16: when generate_pdf has failed for some job of a run, the failure    *)
(* was recorded, every job of the run was still attempted, and once the    *)
(* render loop is over the summary shows the failure: the number produced  *)
(* is the number expected less the number of failed jobs.                  *)
(***************************************************************************)
C16_FailureShowsInFinalCount ==
    (pc \in {"summary", "raised"} /\ failures > 0) =>
        /\ JobsDone = Len(students) * Len(quiz_groups)
        /\ summary.printed
        /\ summary.total = Len(students) * Len(quiz_groups)
        /\ summary.generated = summary.total - failures

(***************************************************************************)
(* generate_pdf_batch: one generate_pdf coroutine per job, all handed to   *)
(* asyncio.gather at once.  A coroutine runs up to its next await, so the  *)
(* steps of different jobs interleave: the launch of the browser, the load *)
(* of the page, the wait for MathJax, the writing of the pdf.              *)
(***************************************************************************)
MaxJobs == 3

Created ==
    [at |-> "created", result |-> FALSE, warned |-> FALSE, pdf_written |-> FALSE,
     raised |-> "none"]

\* the outer except: 'PDF generation failed' is printed, False is returned
Failed(task, where) == [task EXCEPT !.at = "done", !.result = FALSE, !.raised = where]

\* a faulty wait: the exception of the MathJax wait leaves generate_pdf
AbortOnMathJaxTimeout(task, timed_out) ==
    IF timed_out THEN [task EXCEPT !.at = "done", !.result = FALSE, !.warned = TRUE]
    ELSE [task EXCEPT !.at = "waited"]

\* lines 44-55: the inner try; an exception of the wait is printed and swallowed
AfterMathJaxWait(task, timed_out) ==
    [task EXCEPT !.at = "waited", !.warned = timed_out]

\* the browsers that are open
InFlight == {i \in 1..Len(tasks) : tasks[i].at \in {"open", "loaded", "waited"}}

InitBatch ==
    /\ pc = "batch"
    /\ tasks \in {[i \in 1..n |-> Created] : n \in 1..MaxJobs}
    /\ batch_result = 0
    /\ AssemblerIdle
    /\ BinderIdle
    /\ ParserIdle
    /\ QuizIdle
    /\ SanitizerIdle
    /\ StoreIdle
    /\ CliIdle
    /\ PreprocessIdle

\* line 31: p.chromium.launch() and new_page()
LaunchBrowser(i) ==
    /\ pc = "batch"
    /\ tasks[i].at = "created"
    /\ \E raises \in BOOLEAN :
          tasks' = [tasks EXCEPT ![i] = IF raises THEN Failed(@, "launch")
                                        ELSE [@ EXCEPT !.at = "open"]]
    /\ UNCHANGED <<pc, batch_result, assemblerVars, binderVars, parserVars, quizVars,
                   sanitizerVars, html_again, storeVars, cliVars, preprocessVars>>

\* lines 35-41: the page is loaded and the network goes idle
LoadPage(i) ==
    /\ pc = "batch"
    /\ tasks[i].at = "open"
    /\ \E raises \in BOOLEAN :
          tasks' = [tasks EXCEPT ![i] = IF raises THEN Failed(@, "load")
                                        ELSE [@ EXCEPT !.at = "loaded"]]
    /\ UNCHANGED <<pc, batch_result, assemblerVars, binderVars, parserVars, quizVars,
                   sanitizerVars, html_again, storeVars, cliVars, preprocessVars>>

\* lines 44-55: MathJax reports within the timeout, or the wait raises
WaitForMathJax(i) ==
    /\ pc = "batch"
    /\ tasks[i].at = "loaded"
    /\ \E timed_out \in BOOLEAN :
          tasks' = [tasks EXCEPT ![i] = AfterMathJaxWait(@, timed_out)]
    /\ UNCHANGED <<pc, batch_result, assemblerVars, binderVars, parserVars, quizVars,
                   sanitizerVars, html_again, storeVars, cliVars, preprocessVars>>

\* lines 58-71: page.pdf writes the file, the browser is closed, True is returned
WritePdf(i) ==
    /\ pc = "batch"
    /\ tasks[i].at = "waited"
    /\ \E raises \in BOOLEAN :
          tasks' = [tasks EXCEPT ![i] =
                       IF raises THEN Failed(@, "pdf")
                       ELSE [@ EXCEPT !.at = "done", !.result = TRUE, !.pdf_written = TRUE]]
    /\ UNCHANGED <<pc, batch_result, assemblerVars, binderVars, parserVars, quizVars,
                   sanitizerVars, html_again, storeVars, cliVars, preprocessVars>>

\* lines 89-90: gather has every result; sum(results)
ReturnBatch ==
    /\ pc = "batch"
    /\ \A i \in 1..Len(tasks) : tasks[i].at = "done"
    /\ batch_result' = Cardinality({i \in 1..Len(tasks) : tasks[i].result})
    /\ pc' = "returned"
    /\ UNCHANGED <<tasks, assemblerVars, binderVars, parserVars, quizVars,
                   sanitizerVars, html_again, storeVars, cliVars, preprocessVars>>

NextBatch ==
    \/ \E i \in 1..Len(tasks) : LaunchBrowser(i)
    \/ \E i \in 1..Len(tasks) : LoadPage(i)
    \/ \E i \in 1..Len(tasks) : WaitForMathJax(i)
    \/ \E i \in 1..Len(tasks) : WritePdf(i)
    \/ ReturnBatch

SpecBatch == InitBatch /\ [][NextBatch]_vars

(***************************************************************************)
(* C17: a job whose wait for MathJax timed out or failed is not ended by   *)
(* that: it goes on to page.pdf, and unless page.pdf itself raises the pdf *)
(* is written and the job returns success; the batch still returns and     *)
(* counts the job.                                                         *)
(***************************************************************************)
C17_MathJaxTimeoutStillWritesPdf ==
    \A i \in 1..Len(tasks) :
        tasks[i].warned =>
            /\ tasks[i].at \in {"waited", "done"}
            /\ tasks[i].raised \in {"none", "pdf"}
            /\ (tasks[i].at = "done" /\ tasks[i].raised = "none") =>
                    /\ tasks[i].pdf_written
                    /\ tasks[i].result
                    /\ pc = "returned" => batch_result >= 1

\* the wait of a job timed out, its pdf is written, and the job returned True
C17_Witness ==
    /\ pc = "returned"
    /\ \E i \in 1..Len(tasks) :
          tasks[i].warned /\ tasks[i].at = "done" /\ tasks[i].pdf_written /\ tasks[i].result
    /\ batch_result >= 1

(***************************************************************************)
(* C20: the number of browsers in flight is bounded by a limit that does   *)
(* not grow with the number of jobs: it stays below the number of jobs of  *)
(* the largest batches.                                                    *)
(***************************************************************************)
C20_InFlightBelowJobCount ==
    Cardinality(InFlight) < MaxJobs

(***************************************************************************)
(* load_or_generate_templates on every state of the templates directory:   *)
(* the file of a group is missing, or holds the template an earlier run    *)
(* saved, from the rubric as it is now or as it was with one part fewer.   *)
(***************************************************************************)
PersistedTemplates(g) ==
    {NoFile,
     add_question_structure_and_placeholders(RubricOf(g), g),
     add_question_structure_and_placeholders(RubricOf([g EXCEPT !.num_parts = @ - 1]),
                                             [g EXCEPT !.num_parts = @ - 1])}

InitTemplates ==
    /\ pc = "quiz"
    /\ quiz_groups \in QuizConfigs
    /\ limit \in {1, 2}
    /\ force_regenerate \in BOOLEAN
    /\ template_files \in
           UNION {{f \in [1..Len(gs) -> UNION {PersistedTemplates(gs[i]) : i \in 1..Len(gs)}] :
                      \A i \in 1..Len(gs) : f[i] \in PersistedTemplates(gs[i])} :
                  gs \in {quiz_groups}}
    /\ templates = <<>>
    /\ students = <<>>
    /\ student_idx = 0
    /\ group_pos = 0
    /\ written = {}
    /\ pdf_count = 0
    /\ saved = {}
    /\ failures = 0
    /\ summary = NoSummary
    /\ AssemblerIdle
    /\ BinderIdle
    /\ ParserIdle
    /\ SanitizerIdle
    /\ BatchIdle
    /\ CliIdle
    /\ PreprocessIdle

NextTemplates == LoadOrGenerateTemplates

SpecTemplates == InitTemplates /\ [][NextTemplates]_vars

(***************************************************************************)
(* C18: load_or_generate_templates regenerates the templates from the      *)
(* rubric, and saves them, exactly when the force flag is set or the       *)
(* template file of some group is missing; otherwise it returns what the   *)
(* file of every group holds, leaves the files as they are and writes      *)
(* none.                                                                   *)
(***************************************************************************)
C18_RegeneratesExactlyWhenForcedOrMissing ==
    [][(pc = "quiz" /\ pc' = "parse") =>
          IF force_regenerate \/ \E i \in 1..Len(quiz_groups) : template_files[i] = NoFile
          THEN /\ templates' = [i \in 1..Len(quiz_groups) |->
                                   add_question_structure_and_placeholders(
                                       RubricOf(quiz_groups[i]), quiz_groups[i])]
               /\ template_files' = templates'
               /\ saved' = 1..Len(quiz_groups)
          ELSE /\ templates' = template_files
               /\ template_files' = template_files
               /\ saved' = {}]_vars

\* every file was there and the flag was off: templates of an earlier rubric were loaded
C18_Witness ==
    /\ pc = "parse"
    /\ ~force_regenerate
    /\ saved = {}
    /\ templates = template_files
    /\ \A i \in 1..Len(quiz_groups) : templates[i] # NoFile
    /\ \E i \in 1..Len(quiz_groups) :
          templates[i] # add_question_structure_and_placeholders(RubricOf(quiz_groups[i]),
                                                                 quiz_groups[i])

(***************************************************************************)
(* run_quiz.main: the command line is parsed, the export is looked for,    *)
(* the config module is imported, and process_quiz is called.              *)
(***************************************************************************)
CommandLines == [limit : {0, 1, 2}, student : {"", "Alice"}, no_zip : BOOLEAN,
                 regenerate : BOOLEAN]

\* the keyword arguments of the call at lines 103-110
CallKeywords == {"limit", "student_name", "skip_zip", "force_regenerate"}

\* the parameters of process_quiz, orchestrator.py lines 66-71
ProcessQuizParameters == {"csv_path", "config", "limit", "force_regenerate"}

\* a faulty exit: the process ends with status 0 whatever is asked for
ExitZero(status) == 0

\* sys.exit(status)
sys_exit(status) == status

InitRun ==
    /\ pc = "main"
    /\ cli_args \in CommandLines
    /\ csv_exists \in BOOLEAN
    /\ config_state \in {"loaded", "missing", "no QUIZ_CONFIG"}
    /\ exit_status = 0
    /\ workflow_started = FALSE
    /\ AssemblerIdle
    /\ BinderIdle
    /\ ParserIdle
    /\ QuizIdle
    /\ SanitizerIdle
    /\ StoreIdle
    /\ BatchIdle
    /\ PreprocessIdle

\* lines 84-86
ValidateCsv ==
    /\ pc = "main"
    /\ IF ~csv_exists
       THEN pc' = "csv missing" /\ exit_status' = sys_exit(1)
       ELSE pc' = "config" /\ UNCHANGED exit_status
    /\ UNCHANGED <<cli_args, csv_exists, config_state, workflow_started, assemblerVars,
                   binderVars, parserVars, quizVars, sanitizerVars, html_again, storeVars,
                   batchVars, preprocessVars>>

\* lines 89-99: ImportError when the module is missing, AttributeError without QUIZ_CONFIG
LoadConfig ==
    /\ pc = "config"
    /\ IF config_state # "loaded"
       THEN pc' = "config failed" /\ exit_status' = sys_exit(1)
       ELSE pc' = "workflow" /\ UNCHANGED exit_status
    /\ UNCHANGED <<cli_args, csv_exists, config_state, workflow_started, assemblerVars,
                   binderVars, parserVars, quizVars, sanitizerVars, html_again, storeVars,
                   batchVars, preprocessVars>>

\* lines 102-118: the call raises TypeError when it names a parameter process_quiz does
\* not have; otherwise the workflow runs and returns, raises or is interrupted
RunWorkflow ==
    /\ pc = "workflow"
    /\ IF ~(CallKeywords \subseteq ProcessQuizParameters)
       THEN /\ pc' = "workflow raised"
            /\ exit_status' = sys_exit(1)
            /\ UNCHANGED workflow_started
       ELSE /\ workflow_started' = TRUE
            /\ \E outcome \in {"returned", "raised", "interrupted"} :
                  IF outcome = "returned"
                  THEN pc' = "done" /\ UNCHANGED exit_status
                  ELSE pc' = "workflow raised" /\ exit_status' = sys_exit(1)
    /\ UNCHANGED <<cli_args, csv_exists, config_state, assemblerVars, binderVars, parserVars,
                   quizVars, sanitizerVars, html_again, storeVars, batchVars, preprocessVars>>

NextRun == ValidateCsv \/ LoadConfig \/ RunWorkflow

SpecRun == InitRun /\ [][NextRun]_vars

(***************************************************************************)
(* C19: run_quiz ends with a non-zero status when the export does not      *)
(* exist, when the config module is missing or has no QUIZ_CONFIG, and     *)
(* when process_quiz raises; in the first two cases it ends before the     *)
(* workflow has started, and it does not go past the point of failure.     *)
(***************************************************************************)
C19_NonZeroExitOnFailure ==
    /\ (pc \notin {"main"} /\ ~csv_exists) =>
           pc = "csv missing" /\ exit_status # 0 /\ ~workflow_started
    /\ (pc \notin {"main", "config"} /\ csv_exists /\ config_state # "loaded") =>
           pc = "config failed" /\ exit_status # 0 /\ ~workflow_started
    /\ pc = "workflow raised" => exit_status # 0

\* the config module has no QUIZ_CONFIG: status 1, and nothing was started
C19_Witness ==
    /\ pc = "config failed"
    /\ config_state = "no QUIZ_CONFIG"
    /\ exit_status = 1
    /\ ~workflow_started

(***************************************************************************)
(* C21: in the assembled template every question-version container holds   *)
(* exactly the elements from its Question heading up to, not including,    *)
(* the next Question heading; the containers are siblings, none lies       *)
(* inside another, and every element from the first Question heading on    *)
(* lies inside exactly one container.                                      *)
(***************************************************************************)
\* the containers that have the element n somewhere below them
ContainersAround(sp, n) == {d \in VariantDivs(sp) : InSeq(n, Descendants(sp, d))}

\* the elements pandoc returned that lie below container d
SourcesInside(sp, d) == {n \in Range(Descendants(sp, d)) : n.k = "src"}

C21_ContainersAreDisjointSiblings ==
    pc = "template" =>
        /\ \A d \in VariantDivs(soup) :
              /\ ContainersAround(soup, d) = {}
              /\ ParentOf(soup, d) = BodyTag
              /\ \E v \in 1..Len(sections) :
                    SourcesInside(soup, d)
                        = {SrcNode(i) : i \in {j \in 1..SourceCount(soup) : SegmentOf(soup, j) = v}}
        /\ \A i \in 1..SourceCount(soup) :
              SegmentOf(soup, i) >= 1 =>
                  Cardinality(ContainersAround(soup, SrcNode(i))) = 1

(***************************************************************************)
(* C22: in the assembled template every Part heading that received a       *)
(* letter and has a solution block of its own (a block between this        *)
(* heading and the next heading of the rubric) has that letter's slot      *)
(* directly after that block, and every slot stands directly after a       *)
(* solution block that belongs to the part carrying the slot's letter, in  *)
(* the same variant, never after the block of another part or variant.     *)
(***************************************************************************)
\* the Part heading a source block belongs to: the last h2 before it with no
\* Question heading in between (0: none)
PartOfBlock(sp, i) ==
    LET before == {p \in 1..(i - 1) :
                      /\ SourceName(sp, p) = "h2"
                      /\ \A q \in p..i : SourceName(sp, q) # "h1"}
    IN  IF before = {} THEN 0 ELSE CHOOSE p \in before : \A q \in before : q <= p

\* the student-answer sections attached to the tree
SlotSections(sp) ==
    {n \in Range(AllElements(sp)) : InSeq("student-answer-section", sp.tag[n].class)}

\* the element directly before n under its parent (None: n is the first child)
PrevSibling(sp, n) ==
    LET sibs == sp.kids[ParentOf(sp, n)]
        at == IndexOf(n, sibs)
    IN  IF at = 1 THEN None ELSE sibs[at - 1]

\* the letter a relabelled Part heading shows ("": not relabelled)
LetterShown(sp, p) ==
    LET text == sp.tag[SrcNode(p)].text
    IN  IF Len(text) >= 3 /\ text[2] = " " THEN text[3] ELSE ""

IsSolutionOf(sp, b, p) ==
    b # None /\ b.k = "src" /\ SourceName(sp, b.i) = "blockquote" /\ PartOfBlock(sp, b.i) = p

C22_SlotAfterOwnSolution ==
    pc = "template" =>
        /\ \A p \in 1..SourceCount(soup) :
              (/\ SourceName(soup, p) = "h2"
               /\ LetterShown(soup, p) # ""
               /\ \E i \in 1..SourceCount(soup) : IsSolutionOf(soup, SrcNode(i), p)) =>
                  \E s \in SlotSections(soup) :
                      /\ Upper[soup.tag[s].part] = LetterShown(soup, p)
                      /\ IsSolutionOf(soup, PrevSibling(soup, s), p)
        /\ \A s \in SlotSections(soup) :
              \E p \in 1..SourceCount(soup) :
                  /\ SourceName(soup, p) = "h2"
                  /\ LetterShown(soup, p) = Upper[soup.tag[s].part]
                  /\ IsSolutionOf(soup, PrevSibling(soup, s), p)

\* the same for rubrics whose parts each come with their solution block
C22_SlotAfterOwnSolutionWhenPresent ==
    WellFormedRubric(soup, group) => C22_SlotAfterOwnSolution

(***************************************************************************)
(* C23: in the assembled template, within every question-version container *)
(* the N-th Part heading in document order shows the N-th letter of a-f    *)
(* when N <= num_parts and keeps its original text when N > num_parts, and *)
(* the container holds no more slots than it has lettered headings.        *)
(***************************************************************************)
\* f"Part {part_letter.upper()}" + original_text[4:] on the heading pandoc returned
Relabelled(letter) == <<"Part", " ", Upper[letter]>> \o Tail(PartHeading.text)

C23_NthPartGetsNthLetter ==
    pc = "template" =>
        \A d \in VariantDivs(soup) :
            LET parts == FindParts(soup, d)
            IN  /\ \A N \in 1..Len(parts) :
                      soup.tag[parts[N]].text =
                          IF N <= group.num_parts
                          THEN Relabelled(part_letters[N])
                          ELSE PartHeading.text
                /\ Cardinality(SlotsInside(soup, d)) <= Min(group.num_parts, Len(parts))

\* the same for rubric segments with one Question heading
C23_NthPartGetsNthLetterOneVariant ==
    Len(sections) = 1 => C23_NthPartGetsNthLetter

(***************************************************************************)
(* C24: for every group of the config whose variant the student received   *)
(* was found, subpart 'a' is the cell of the tagged column of the recorded *)
(* tag, and subparts 'b' and 'c' are the cells of the group's shared       *)
(* columns: the columns whose header text names Part B / Part C (or the    *)
(* partition question) and that follow the group's tagged columns in the   *)
(* export, whichever variant was received.  Blank cells are left aside.    *)
(***************************************************************************)
\* the subpart a header names by its text ("": none)
SharedLetter(col_name) ==
    LET col_text == LStrip(RStrip(LowerText(col_name)))
    IN  IF StartsWith(col_text, "part b:") THEN "b"
        ELSE IF StartsWith(col_text, "part c:") THEN "c"
        ELSE IF InSeq("partition", col_text) /\ InSeq("minimum", col_text)
                    /\ InSeq("cut", col_text) THEN "b"
        ELSE ""

\* the group whose tagged columns a column follows: the group of the nearest tagged
\* column at its left ("": none)
GroupOfColumn(c) ==
    LET tagged == {t \in 0..c : map_tag_to_group(MatchTagAtStart(columns[t + 1])) # NoResult}
    IN  IF tagged = {} THEN ""
        ELSE map_tag_to_group(
                 MatchTagAtStart(columns[(CHOOSE t \in tagged : \A u \in tagged : u <= t) + 1]))[1]

HoldsAnswer(cell) == notna(cell) /\ NonBlank(cell)

C24_SubpartsFromOwnColumns ==
    \A i \in ProcessedGroups :
        LET g == question_groups[i]
            entry == student_rec.groups[g.id]
        IN  QualifyingPositions(g) # {} =>
                /\ LET cell == row[DictGet(variant_columns, entry.tag) + 1]
                   IN  HoldsAnswer(cell) => entry.answers["a"] = cell
                /\ \A c \in 0..(Len(columns) - 1) : \A letter \in {"b", "c"} :
                      (/\ SharedLetter(columns[c + 1]) = letter
                       /\ GroupOfColumn(c) = g.id
                       /\ HoldsAnswer(row[c + 1])) =>
                          entry.answers[letter] = row[c + 1]

(***************************************************************************)
(* C25: in a fragment with one 'LaTeX:' marker, the expression does not    *)
(* end at a markup tag start or before a stop-word that lies inside a      *)
(* balanced \left...\right pair, and it ends no later than the first       *)
(* markup tag start that lies outside every balanced pair.                 *)
(***************************************************************************)
\* Body[a] is a \left and Body[b] the \right that closes it
Matched(a, b) ==
    /\ a < b
    /\ Body[a] = "\\left"
    /\ Body[b] = "\\right"
    /\ DepthAt(b) = DepthAt(a - 1)
    /\ \A m \in a..(b - 1) : DepthAt(m) > DepthAt(a - 1)

\* the k-th unit of the body lies inside a balanced pair
InsidePair(k) ==
    \E a \in 1..(k - 1), b \in (k + 1)..Len(Body) : Matched(a, b)

\* the number of units of the body taken into the expression: what follows the
\* closing \) of the output is the rest of the body
ExprEnd ==
    Len(Body) - (Len(converted) - (CHOOSE p \in 1..Len(converted) : converted[p] = "\\)"))

C25_NestingAwareTermination ==
    (pc = "converted" /\ Cardinality(MarkerPositions) = 1) =>
        /\ (ExprEnd < Len(Body) /\ (TagStartAt(ExprEnd + 1) \/ BoundaryAt(ExprEnd)))
              => ~InsidePair(ExprEnd + 1)
        /\ \A k \in 1..Len(Body) :
              (TagStartAt(k) /\ ~InsidePair(k)) => ExprEnd < k

(***************************************************************************)
(* rubric_converter.replace_tikz_with_images.  The LaTeX of a group's line *)
(* range is a sequence of units: the environment delimiters, commands and  *)
(* plain text.  image_map is a dict from figure number to file name.       *)
(***************************************************************************)
MaxFigures == 3         \* figures and text runs of one line range

BeginFigure == "\\begin{figure}[H]"

EndFigure == "\\end{figure}"

BeginTikz == "\\begin{tikzpicture}"

EndTikz == "\\end{tikzpicture}"

\* a figure drawn with TikZ, a figure that includes an image file, a run of text
TikzFigure == <<BeginFigure, BeginTikz, "\\draw", EndTikz, "\\centering", EndFigure>>

PlainFigure == <<BeginFigure, "\\centering", "\\includegraphics{Q4.png}", EndFigure>>

TextRun == <<"text">>

\* image_map of a group: some of the figure numbers, each with its file
ImageMaps ==
    {[n \in keys |-> "graph" \o ToString(n) \o ".png"] : keys \in SUBSET (1..MaxFigures)}

\* the position of the first unit equal to tok after position `from` (0: none)
FirstAfter(content, from, tok) ==
    LET at == {k \in (from + 1)..Len(content) : content[k] = tok}
    IN  IF at = {} THEN 0 ELSE CHOOSE k \in at : \A m \in at : k <= m

\* tikz_pattern tried at position `start` (1-based): figure[H] .*? begin{tikzpicture} .*?
\* end{tikzpicture} .*? end{figure}, each .*? as short as possible; the position of the
\* last unit of the match (0: no match starts here)
TikzPatternEnd(content, start) ==
    IF content[start] # BeginFigure THEN 0
    ELSE LET begin_tikz == FirstAfter(content, start, BeginTikz)
             end_tikz == IF begin_tikz = 0 THEN 0 ELSE FirstAfter(content, begin_tikz, EndTikz)
         IN  IF end_tikz = 0 THEN 0 ELSE FirstAfter(content, end_tikz, EndFigure)

\* lines 88-97: the replacement for the match numbered figure_num
replace_with_image(map, figure_num, matched) ==
    IF figure_num \in DOMAIN map
    THEN <<BeginFigure, "\n", "\\centering", "\n",
           "\\includegraphics[width=0.8\\textwidth]{" \o map[figure_num] \o "}", "\n",
           EndFigure>>
    ELSE matched

\* re.sub(tikz_pattern, replace_with_image, latex_content): the matches from left to
\* right, none overlapping an earlier one; pos counts the units already consumed
RECURSIVE SubTikz(_, _, _, _)
SubTikz(content, map, pos, figure_num) ==
    IF pos >= Len(content) THEN <<>>
    ELSE LET e == TikzPatternEnd(content, pos + 1)
         IN  IF e # 0
             THEN replace_with_image(map, figure_num, SubSeq(content, pos + 1, e))
                     \o SubTikz(content, map, e, figure_num + 1)
             ELSE <<content[pos + 1]>> \o SubTikz(content, map, pos + 1, figure_num)

replace_tikz_with_images(content, map) ==
    IF map = <<>> THEN content ELSE SubTikz(content, map, 0, 1)

InitTikz ==
    /\ pc = "preprocess"
    /\ latex_content \in
          UNION {{Concat(ps) : ps \in SeqsOf({TikzFigure, PlainFigure, TextRun}, n)} :
                    n \in 1..MaxFigures}
    /\ image_map \in ImageMaps
    /\ preprocessed = <<>>
    /\ AssemblerIdle
    /\ BinderIdle
    /\ ParserIdle
    /\ QuizIdle
    /\ SanitizerIdle
    /\ StoreIdle
    /\ BatchIdle
    /\ CliIdle

\* preprocess_exam_latex, lines 107-108
ReplaceTikz ==
    /\ pc = "preprocess"
    /\ preprocessed' = replace_tikz_with_images(latex_content, image_map)
    /\ pc' = "preprocessed"
    /\ UNCHANGED <<latex_content, image_map, assemblerVars, binderVars, parserVars, quizVars,
                   sanitizerVars, html_again, storeVars, batchVars, cliVars>>

NextTikz == ReplaceTikz

SpecTikz == InitTikz /\ [][NextTikz]_vars

(***************************************************************************)
(* C26: with a non-empty image map, the result is the input in which the   *)
(* N-th figure environment that contains a tikzpicture, counted in         *)
(* document order, is replaced by a figure including image_map[N] when N   *)
(* is a key of the map; figures whose number is not a key, figures without *)
(* a tikzpicture and the text between figures are unchanged.               *)
(***************************************************************************)
\* the figure environment that begins at position a ends at FigureEnd(content, a)
FigureEnd(content, a) == FirstAfter(content, a, EndFigure)

\* the figure that begins at a holds a tikzpicture
HoldsTikz(content, a) ==
    \E k \in (a + 1)..(FigureEnd(content, a) - 1) : content[k] = BeginTikz

\* the number of the TikZ figure that begins at a
TikzNumber(content, a) ==
    Cardinality({b \in 1..a : content[b] = BeginFigure /\ HoldsTikz(content, b)})

IncludedImage(file) ==
    <<BeginFigure, "\n", "\\centering", "\n",
      "\\includegraphics[width=0.8\\textwidth]{" \o file \o "}", "\n", EndFigure>>

RECURSIVE FiguresReplaced(_, _, _)
FiguresReplaced(content, map, pos) ==
    IF pos >= Len(content) THEN <<>>
    ELSE IF /\ content[pos + 1] = BeginFigure
            /\ HoldsTikz(content, pos + 1)
            /\ TikzNumber(content, pos + 1) \in DOMAIN map
         THEN IncludedImage(map[TikzNumber(content, pos + 1)])
                 \o FiguresReplaced(content, map, FigureEnd(content, pos + 1))
         ELSE <<content[pos + 1]>> \o FiguresReplaced(content, map, pos + 1)

C26_NthTikzFigureReplaced ==
    (pc = "preprocessed" /\ image_map # <<>>) =>
        preprocessed = FiguresReplaced(latex_content, image_map, 0)

(***************************************************************************)
(* C27: once the render loop of a process_quiz run is over, the run has    *)
(* printed its summary, the number expected in it is the number of         *)
(* students times the number of configured groups and the number produced  *)
(* is the number of jobs for which generate_pdf returned success, for a    *)
(* config of one group as for a config of several.                         *)
(***************************************************************************)
C27_SummaryForAnyGroupCount ==
    pc \in {"summary", "raised"} =>
        /\ summary.printed
        /\ summary.total = Len(students) * Len(quiz_groups)
        /\ summary.generated = pdf_count
        /\ pdf_count = JobsDone - failures

(***************************************************************************)
(* C28: a run_quiz invocation with an existing export and a loadable       *)
(* config, whatever its limit, student, no-zip and regenerate options,     *)
(* gets past the call of process_quiz: the body of process_quiz begins,    *)
(* and when it returns the exit status is zero.                            *)
(***************************************************************************)
C28_CallAcceptedByProcessQuiz ==
    (csv_exists /\ config_state = "loaded" /\ pc \in {"done", "workflow raised"}) =>
        /\ workflow_started
        /\ pc = "done" => exit_status = 0

(***************************************************************************)
(* C29: in the document generate_student_html returns, the slot of every   *)
(* subpart X that was processed holds the sanitized answer for X (or the   *)
(* no-answer marker when X has none), whatever the answers for the other   *)
(* subparts are and whatever text the answer for X spells, another         *)
(* subpart's placeholder label included.                                   *)
(***************************************************************************)
C29_SlotHoldsOwnAnswerOnly ==
    pc = "bound" =>
        LET answers == student.groups[group.id].answers
            parts == PartsToProcess(answers, num_parts_arg)
        IN  \A k \in 1..Len(parts) :
                \A i \in SlotTokens(html, parts[k]) :
                    SlotContent(html, i) = ExpectedContent(answers, parts[k])

(***************************************************************************)
(* C30: the output of convert_latex_in_html holds the text of the input    *)
(* once and in order: leaving aside the markers, the \( \) delimiters put  *)
(* in, and the blanks and trailing punctuation that trimming may remove,   *)
(* the units of the output are the units of the input, for fragments with  *)
(* any number of markers.                                                  *)
(***************************************************************************)
\* the units of a fragment that are neither marker, delimiter, blank nor punctuation
TextUnits(h) ==
    SelectSeq(h, LAMBDA t : t \notin {"LaTeX:", "LaTeX", "\\(", "\\)", " ", "\n", "\t",
                                      ",", ".", ";", ":"})

C30_NoTextDuplicatedOrDropped ==
    pc = "converted" => TextUnits(converted) = TextUnits(fragment)

=============================================================================
